---------------------------- MODULE Spec2Model ----------------------------
(***************************************************************************)
(* Model of the analytical core of futures-analysis-reports:               *)
(*   indicators.py          TechnicalIndicators                            *)
(*   pattern_recognizer.py  KLinePatternRecognizer                         *)
(*   support_resistance.py  SupportResistanceAnalyzer                      *)
(*   trend_analyzer.py      TrendAnalyzer                                  *)
(*                                                                         *)
(* The core is a set of functions over a price frame.  The state is the    *)
(* frame being analysed (df), the arguments of the call under study        *)
(* (args), the value it returned (ret) and the position of the caller      *)
(* (pc).  Every specification draws its inputs in its Init and has one     *)
(* action per call.                                                        *)
(***************************************************************************)
EXTENDS Integers, Sequences, FiniteSets, TLC

VARIABLES pc, df, args, ret

vars == <<pc, df, args, ret>>

(***************************************************************************)
(* float64 arithmetic.  A number is a pair <<n, d>>: n/d in lowest terms   *)
(* with d > 0; <<0,0>> is NaN, <<1,0>> and <<-1,0>> are +inf and -inf.     *)
(* A result is kept exact while its denominator is at most DenCap and is   *)
(* otherwise rounded down to a multiple of 1/Grid, as a float keeps a      *)
(* value exact while it fits the mantissa and rounds it otherwise.         *)
(***************************************************************************)
DenCap == 1000

Grid == 1000

NaN == <<0, 0>>

PosInf == <<1, 0>>

NegInf == <<-1, 0>>

Abs(x) == IF x < 0 THEN -x ELSE x

Sign(x) == IF x < 0 THEN -1 ELSE IF x > 0 THEN 1 ELSE 0

RECURSIVE GCD(_, _)
GCD(a, b) == IF b = 0 THEN a ELSE GCD(b, a % b)

\* <<floor(r*g/d), (r*g) % d>> for 0 <= r < d, without forming r*g
RECURSIVE MulDivMod(_, _, _)
MulDivMod(r, g, d) ==
    IF g = 0 THEN <<0, 0>>
    ELSE LET h == MulDivMod(r, g \div 2, d)
             t == 2 * h[2] + (g % 2) * r
         IN  <<2 * h[1] + (t \div d), t % d>>

\* m/Grid in lowest terms, g the common divisor of m and Grid
OnGrid(m, g) == <<m \div g, Grid \div g>>

RoundToGrid(m) == OnGrid(m, GCD(Abs(m), Grid))

\* n/d in lowest terms as a number: rounded down to the grid past DenCap
Lowest(n, d) ==
    IF d <= DenCap THEN <<n, d>>
    ELSE RoundToGrid((n \div d) * Grid + MulDivMod(n % d, Grid, d)[1])

Reduced(n, d, g) == Lowest(n \div g, d \div g)

\* n/d (d > 0) as a number
Norm(n, d) == Reduced(n, d, GCD(Abs(n), d))

Num(i) == <<i, 1>>

Frac(n, d) == Norm(n, d)

isnan(a) == a = NaN

isinf(a) == a = PosInf \/ a = NegInf

IsFinite(a) == a[2] > 0

RNeg(a) == <<-a[1], a[2]>>

RAdd(a, b) ==
    IF isnan(a) \/ isnan(b) THEN NaN
    ELSE IF isinf(a) /\ isinf(b) THEN (IF a = b THEN a ELSE NaN)
    ELSE IF isinf(a) THEN a
    ELSE IF isinf(b) THEN b
    ELSE LET g == GCD(a[2], b[2])
         IN  Norm(a[1] * (b[2] \div g) + b[1] * (a[2] \div g), (a[2] \div g) * b[2])

RSub(a, b) == RAdd(a, RNeg(b))

RMul(a, b) ==
    IF isnan(a) \/ isnan(b) THEN NaN
    ELSE IF isinf(a) \/ isinf(b)
         THEN (IF a[1] = 0 \/ b[1] = 0 THEN NaN
               ELSE <<Sign(a[1]) * Sign(b[1]), 0>>)
    ELSE LET g1 == GCD(Abs(a[1]), b[2])
             g2 == GCD(Abs(b[1]), a[2])
         IN  Norm((a[1] \div g1) * (b[1] \div g2), (a[2] \div g2) * (b[2] \div g1))

\* numpy float64 division: x/0 is inf or nan, never an exception
RDiv(a, b) ==
    IF isnan(a) \/ isnan(b) THEN NaN
    ELSE IF isinf(a) /\ isinf(b) THEN NaN
    ELSE IF isinf(a) THEN <<Sign(a[1]) * (IF b[1] < 0 THEN -1 ELSE 1), 0>>
    ELSE IF isinf(b) THEN Num(0)
    ELSE IF b[1] = 0 THEN (IF a[1] = 0 THEN NaN ELSE <<Sign(a[1]), 0>>)
    ELSE LET g1 == GCD(Abs(a[1]), Abs(b[1]))
             g2 == GCD(a[2], b[2])
             s  == Sign(b[1])
         IN  Norm(s * (a[1] \div g1) * (b[2] \div g2), (a[2] \div g2) * (Abs(b[1]) \div g1))

\* comparisons; every comparison with NaN is false
RLt(a, b) ==
    /\ ~isnan(a) /\ ~isnan(b)
    /\ IF isinf(a) \/ isinf(b)
       THEN (IF isinf(a) THEN a[1] ELSE 0) < (IF isinf(b) THEN b[1] ELSE 0)
            \/ (a = NegInf /\ b # NegInf) \/ (b = PosInf /\ a # PosInf)
       ELSE a[1] * b[2] < b[1] * a[2]

RGt(a, b) == RLt(b, a)

REq(a, b) == ~isnan(a) /\ ~isnan(b) /\ a = b

RLe(a, b) == RLt(a, b) \/ REq(a, b)

RGe(a, b) == RLe(b, a)

RAbs(a) == <<Abs(a[1]), a[2]>>

RMax(a, b) == IF RGt(b, a) THEN b ELSE a

RMin(a, b) == IF RLt(b, a) THEN b ELSE a

(***************************************************************************)
(* trend_analyzer.py                                                       *)
(***************************************************************************)
SubTrends == {"up", "strong_up", "down", "strong_down", "sideways", "unknown"}

\* the signal strings of _analyze_boll_position, transliterated: qiangshi tupo
\* (strong breakout), ruoshi diepo (weak breakdown), pianqiang (lean strong),
\* pianruo (lean weak), shuju buzu (no band columns), jisuan zhong (band undefined)
BollSignals == {"qiangshi_tupo", "ruoshi_diepo", "pianqiang", "pianruo",
                "boll_shuju_buzu", "boll_jisuan_zhong"}

\* sum([1 for t in ts if t in members])
RECURSIVE CountIn(_, _)
CountIn(ts, members) ==
    IF ts = <<>> THEN 0
    ELSE (IF Head(ts) \in members THEN 1 ELSE 0) + CountIn(Tail(ts), members)

_get_overall_trend_m3(analysis) ==
    LET ts == <<analysis.ma_trend.trend, analysis.macd_trend.trend, analysis.kdj_trend.trend>>
    IN  IF CountIn(ts, {"up", "strong_up"}) >= 3 THEN "uptrend"
        ELSE IF CountIn(ts, {"down", "strong_down"}) >= 2 THEN "downtrend"
        ELSE "sideways"

_get_overall_trend(analysis) ==
    LET ma_trend   == analysis.ma_trend.trend
        macd_trend == analysis.macd_trend.trend
        kdj_trend  == analysis.kdj_trend.trend
        up_count   == CountIn(<<ma_trend, macd_trend, kdj_trend>>, {"up", "strong_up"})
        down_count == CountIn(<<ma_trend, macd_trend, kdj_trend>>, {"down", "strong_down"})
    IN  IF up_count >= 2 THEN "uptrend"
        ELSE IF down_count >= 2 THEN "downtrend"
        ELSE "sideways"

NoFrame == <<>>

NoRet == "none"

\* the sub-verdicts are drawn, the fusion is applied to them
InitTrend ==
    /\ pc = "fuse"
    /\ df = NoFrame
    /\ args \in [ma_trend: [trend: SubTrends], macd_trend: [trend: SubTrends],
                 kdj_trend: [trend: SubTrends], boll_position: [signal: BollSignals]]
    /\ ret = NoRet

CallOverallTrend ==
    /\ pc = "fuse"
    /\ ret' = _get_overall_trend(args)
    /\ pc' = "fused"
    /\ UNCHANGED <<df, args>>

NextTrend == CallOverallTrend

SpecTrend == InitTrend /\ [][NextTrend]_vars

UpSet == {"up", "strong_up"}

DownSet == {"down", "strong_down"}

Votes(a, S) == Cardinality({f \in {"ma_trend", "macd_trend", "kdj_trend"} : a[f].trend \in S})

\* C1: for every combination of the MA, MACD and KDJ sub-verdicts the fused
\* trend is uptrend iff at least two are up/strong_up, downtrend iff at least
\* two are down/strong_down, sideways otherwise, whatever the Bollinger signal.
C1_OverallTrend ==
    pc = "fused" =>
        /\ (ret = "uptrend") <=> (Votes(args, UpSet) >= 2)
        /\ (ret = "downtrend") <=> (Votes(args, DownSet) >= 2)
        /\ (ret = "sideways") <=> (Votes(args, UpSet) < 2 /\ Votes(args, DownSet) < 2)

C1_Witness ==
    /\ pc = "fused"
    /\ args.ma_trend.trend = "up" /\ args.macd_trend.trend = "down"
    /\ args.kdj_trend.trend = "strong_down"
    /\ args.boll_position.signal = "qiangshi_tupo"
    /\ ret = "downtrend"

(***************************************************************************)
(* pattern_recognizer.py.  The pattern names are transliterated:           *)
(*   shizixing_chang  doji with long upper and lower shadows               *)
(*   shizixing        doji                                                 *)
(*   chuizi / shangdiao          hammer (bullish) / hanging man (bearish)  *)
(*   liuxing / daochuizi         shooting star / inverted hammer           *)
(*   da/zhong/xiao yang, yin     large/medium/small bullish, bearish bar   *)
(*   zaochen_zhi_xing, huanghun_zhi_xing   morning star, evening star      *)
(*   hong_san_bing, san_zhi_wuya  three white soldiers, three black crows  *)
(***************************************************************************)
None == "None"

body_threshold == Frac(1, 2)

shadow_threshold == Frac(3, 10)

Row(o, h, l, c) == [open |-> Num(o), high |-> Num(h), low |-> Num(l), close |-> Num(c)]

_calculate_body_info(row) ==
    LET open_price  == row.open
        close_price == row.close
        high_price  == row.high
        low_price   == row.low
        body_size   == RAbs(RSub(close_price, open_price))
        total_range == RSub(high_price, low_price)
    IN  IF REq(total_range, Num(0))
        THEN [body_size |-> Num(0), total_range |-> Num(0), body_ratio |-> Num(0),
              upper_shadow |-> Num(0), lower_shadow |-> Num(0),
              upper_shadow_ratio |-> Num(0), lower_shadow_ratio |-> Num(0),
              is_bullish |-> RGt(close_price, open_price),
              is_bearish |-> RLt(close_price, open_price)]
        ELSE LET upper_shadow == RSub(high_price, RMax(open_price, close_price))
                 lower_shadow == RSub(RMin(open_price, close_price), low_price)
             IN  [body_size |-> body_size, total_range |-> total_range,
                  body_ratio |-> RDiv(body_size, total_range),
                  upper_shadow |-> upper_shadow, lower_shadow |-> lower_shadow,
                  upper_shadow_ratio |-> RDiv(upper_shadow, total_range),
                  lower_shadow_ratio |-> RDiv(lower_shadow, total_range),
                  is_bullish |-> RGt(close_price, open_price),
                  is_bearish |-> RLt(close_price, open_price)]

\* the rules after the doji rule, in the order of the code
SingleAfterDoji(info) ==
    IF RGt(info.lower_shadow_ratio, RMul(Num(2), info.body_ratio))
       /\ RLt(info.upper_shadow_ratio, shadow_threshold)
    THEN (IF info.is_bullish THEN "chuizi" ELSE "shangdiao")
    ELSE IF RGt(info.upper_shadow_ratio, RMul(Num(2), info.body_ratio))
            /\ RLt(info.lower_shadow_ratio, shadow_threshold)
    THEN (IF info.is_bullish THEN "liuxing" ELSE "daochuizi")
    ELSE IF info.is_bullish /\ RGt(info.body_ratio, Frac(7, 10)) THEN "da_yang"
    ELSE IF info.is_bearish /\ RGt(info.body_ratio, Frac(7, 10)) THEN "da_yin"
    ELSE IF info.is_bullish /\ RGt(info.body_ratio, Frac(5, 10)) THEN "zhong_yang"
    ELSE IF info.is_bearish /\ RGt(info.body_ratio, Frac(5, 10)) THEN "zhong_yin"
    ELSE IF info.is_bullish THEN "xiao_yang"
    ELSE IF info.is_bearish THEN "xiao_yin"
    ELSE None

DojiLabel(info) ==
    IF RGt(info.upper_shadow_ratio, shadow_threshold)
       /\ RGt(info.lower_shadow_ratio, shadow_threshold)
    THEN "shizixing_chang"
    ELSE "shizixing"

\* mutant: the hammer and shooting-star rules are tried before the doji rule
recognize_single_pattern_hammer_first(row) ==
    LET info  == _calculate_body_info(row)
        later == SingleAfterDoji(info)
    IN  IF later \in {"chuizi", "shangdiao", "liuxing", "daochuizi"} THEN later
        ELSE IF RLt(info.body_ratio, body_threshold) THEN DojiLabel(info)
        ELSE later

\* mutant: the doji rule is skipped for a bar without range
recognize_single_pattern_range_guard(row) ==
    LET info == _calculate_body_info(row)
    IN  IF RLt(info.body_ratio, body_threshold) /\ RGt(info.total_range, Num(0))
        THEN DojiLabel(info)
        ELSE SingleAfterDoji(info)

\* mutant: no doji rule
recognize_single_pattern_no_doji(row) == SingleAfterDoji(_calculate_body_info(row))

recognize_single_pattern(row) ==
    LET info == _calculate_body_info(row)
    IN  IF RLt(info.body_ratio, body_threshold)
        THEN DojiLabel(info)
        ELSE SingleAfterDoji(info)

SingleMaxPrice == 6

\* every bar over the price range, ill-formed ones (high < low, body outside
\* the range) included
InitSingle ==
    /\ pc = "single"
    /\ df = NoFrame
    /\ \E o, h, l, c \in 1..SingleMaxPrice : args = [row |-> Row(o, h, l, c)]
    /\ ret = NoRet

CallSinglePattern ==
    /\ pc = "single"
    /\ ret' = recognize_single_pattern(args.row)
    /\ pc' = "singled"
    /\ UNCHANGED <<df, args>>

NextSingle == CallSinglePattern

SpecSingle == InitSingle /\ [][NextSingle]_vars

\* the bar's ratios restated on the integer prices
IntOf(x) == x[1]

BarBody(row) == Abs(IntOf(row.close) - IntOf(row.open))

BarRange(row) == IntOf(row.high) - IntOf(row.low)

BarUpper(row) ==
    IntOf(row.high) - (IF IntOf(row.open) > IntOf(row.close) THEN IntOf(row.open) ELSE IntOf(row.close))

BarLower(row) ==
    (IF IntOf(row.open) < IntOf(row.close) THEN IntOf(row.open) ELSE IntOf(row.close)) - IntOf(row.low)

\* x/range > p/q, resp. x/range < p/q, for a bar with range # 0
RatioAbove(x, range, p, q) ==
    IF range > 0 THEN q * x > p * range ELSE q * x < p * range

RatioBelow(x, range, p, q) ==
    IF range > 0 THEN q * x < p * range ELSE q * x > p * range

\* body ratio below 0.5: a bar without range has ratio 0
SmallBody(row) ==
    BarRange(row) = 0 \/ RatioBelow(BarBody(row), BarRange(row), 1, 2)

LongShadows(row) ==
    /\ BarRange(row) # 0
    /\ RatioAbove(BarUpper(row), BarRange(row), 3, 10)
    /\ RatioAbove(BarLower(row), BarRange(row), 3, 10)

\* the shadow condition of the hammer rule, resp. the shooting-star rule
HammerShadows(row) ==
    /\ BarRange(row) # 0
    /\ RatioAbove(BarLower(row) - 2 * BarBody(row), BarRange(row), 0, 1)
    /\ RatioBelow(BarUpper(row), BarRange(row), 3, 10)

StarShadows(row) ==
    /\ BarRange(row) # 0
    /\ RatioAbove(BarUpper(row) - 2 * BarBody(row), BarRange(row), 0, 1)
    /\ RatioBelow(BarLower(row), BarRange(row), 3, 10)

\* C8: a bar whose body ratio is below 0.5, every bar without range included,
\* is labelled doji: doji with long shadows when both shadow ratios exceed 0.3,
\* plain doji otherwise; never hammer, hanging man, shooting star or inverted
\* hammer, even when the shadow conditions of those rules hold.
C8_DojiFirst ==
    (pc = "singled" /\ SmallBody(args.row)) =>
        ret = (IF LongShadows(args.row) THEN "shizixing_chang" ELSE "shizixing")

\* a small-bodied bar on which the hammer rule's shadow condition holds
C8_Witness ==
    /\ pc = "singled"
    /\ SmallBody(args.row)
    /\ BarRange(args.row) > 0
    /\ HammerShadows(args.row)
    /\ ret = "shizixing"

\* a small-bodied bar with both shadows long
C8_WitnessLong ==
    /\ pc = "singled"
    /\ SmallBody(args.row)
    /\ LongShadows(args.row)
    /\ ret = "shizixing_chang"

SingleLabels ==
    {"shizixing_chang", "shizixing", "chuizi", "shangdiao", "liuxing", "daochuizi",
     "da_yang", "da_yin", "zhong_yang", "zhong_yin", "xiao_yang", "xiao_yin"}

\* C9: with the default thresholds every bar gets exactly one label, never
\* None: bars with close = open, bars with high = low and ill-formed bars too.
C9_AlwaysLabelled ==
    pc = "singled" => ret \in SingleLabels

\* an ill-formed flat bar: high = low, open = close above the high
C9_Witness ==
    /\ pc = "singled"
    /\ BarRange(args.row) = 0
    /\ BarBody(args.row) = 0
    /\ IntOf(args.row.close) > IntOf(args.row.high)
    /\ ret \in SingleLabels

\* df.iloc[i]: the frame is a sequence of rows, Python indexes from 0
iloc(frame, i) == frame[i + 1]

recognize_triple_pattern(frame, index) ==
    IF index < 2 THEN None
    ELSE
    LET row1  == iloc(frame, index - 2)
        row2  == iloc(frame, index - 1)
        row3  == iloc(frame, index)
        info1 == _calculate_body_info(row1)
        info2 == _calculate_body_info(row2)
        info3 == _calculate_body_info(row3)
        mid1  == RDiv(RAdd(row1.open, row1.close), Num(2))
        big   == /\ RGt(info1.body_ratio, Frac(4, 10))
                 /\ RGt(info2.body_ratio, Frac(4, 10))
                 /\ RGt(info3.body_ratio, Frac(4, 10))
    IN  IF /\ info1.is_bearish /\ info3.is_bullish
           /\ RLt(info2.body_ratio, body_threshold)
           /\ RGt(row3.close, mid1)
        THEN "zaochen_zhi_xing"
        ELSE IF /\ info1.is_bullish /\ info3.is_bearish
                /\ RLt(info2.body_ratio, body_threshold)
                /\ RLt(row3.close, mid1)
        THEN "huanghun_zhi_xing"
        ELSE IF /\ info1.is_bullish /\ info2.is_bullish /\ info3.is_bullish
                /\ big
                /\ RGt(row3.close, row1.close)
        THEN "hong_san_bing"
        ELSE IF /\ info1.is_bearish /\ info2.is_bearish /\ info3.is_bearish
                /\ big
                /\ RLt(row3.close, row1.close)
        THEN "san_zhi_wuya"
        ELSE None

TripleMaxPrice == 4

\* well-formed bars: low <= min(open, close), max(open, close) <= high
WellFormedRows(maxPrice) ==
    {Row(o, h, l, c) : o \in 1..maxPrice, h \in 1..maxPrice, l \in 1..maxPrice, c \in 1..maxPrice}
        \cap {r \in [open: {Num(x) : x \in 1..maxPrice}, high: {Num(x) : x \in 1..maxPrice},
                     low: {Num(x) : x \in 1..maxPrice}, close: {Num(x) : x \in 1..maxPrice}] :
                 /\ r.low[1] <= r.open[1] /\ r.low[1] <= r.close[1]
                 /\ r.high[1] >= r.open[1] /\ r.high[1] >= r.close[1]}

InitTriple ==
    /\ pc = "triple"
    /\ df \in [1..3 -> WellFormedRows(TripleMaxPrice)]
    /\ args \in [index: 1..2]
    /\ ret = NoRet

CallTriplePattern ==
    /\ pc = "triple"
    /\ ret' = recognize_triple_pattern(df, args.index)
    /\ pc' = "tripled"
    /\ UNCHANGED <<df, args>>

NextTriple == CallTriplePattern

SpecTriple == InitTriple /\ [][NextTriple]_vars

Bullish(row) == IntOf(row.close) > IntOf(row.open)

Bearish(row) == IntOf(row.close) < IntOf(row.open)

\* body ratio > 0.4
SolidBody(row) ==
    BarRange(row) # 0 /\ RatioAbove(BarBody(row), BarRange(row), 4, 10)

\* C10: three white soldiers is returned only when the three bars are bullish,
\* each with body ratio > 0.4, and close[i-2] < close[i-1] < close[i]; three
\* black crows only in the mirror case with decreasing closes.
C10_MonotoneCloses ==
    pc = "tripled" =>
        /\ ret = "hong_san_bing" =>
              /\ \A k \in 1..3 : Bullish(df[k]) /\ SolidBody(df[k])
              /\ IntOf(df[1].close) < IntOf(df[2].close)
              /\ IntOf(df[2].close) < IntOf(df[3].close)
        /\ ret = "san_zhi_wuya" =>
              /\ \A k \in 1..3 : Bearish(df[k]) /\ SolidBody(df[k])
              /\ IntOf(df[1].close) > IntOf(df[2].close)
              /\ IntOf(df[2].close) > IntOf(df[3].close)

\* what the code checks: only the first and the last close are compared
C10_EndsOnly ==
    pc = "tripled" =>
        /\ ret = "hong_san_bing" =>
              /\ \A k \in 1..3 : Bullish(df[k]) /\ SolidBody(df[k])
              /\ IntOf(df[1].close) < IntOf(df[3].close)
        /\ ret = "san_zhi_wuya" =>
              /\ \A k \in 1..3 : Bearish(df[k]) /\ SolidBody(df[k])
              /\ IntOf(df[1].close) > IntOf(df[3].close)

\* three solid bullish bars whose middle close is the highest
C10_Witness ==
    /\ pc = "tripled"
    /\ ret = "hong_san_bing"
    /\ IntOf(df[2].close) > IntOf(df[3].close)

(***************************************************************************)
(* support_resistance.py                                                   *)
(***************************************************************************)
\* sorted(levels, reverse=True)
RECURSIVE InsertDesc(_, _)
InsertDesc(sorted, x) ==
    IF sorted = <<>> THEN <<x>>
    ELSE IF RGt(x, Head(sorted)) THEN <<x>> \o sorted
    ELSE <<Head(sorted)>> \o InsertDesc(Tail(sorted), x)

RECURSIVE SortedDesc(_)
SortedDesc(levels) ==
    IF levels = <<>> THEN <<>>
    ELSE InsertDesc(SortedDesc(SubSeq(levels, 1, Len(levels) - 1)), levels[Len(levels)])

\* abs(level - existing) / avg_price < self.tolerance
IsNear(level, existing, tolerance) ==
    LET avg_price == RDiv(RAdd(level, existing), Num(2))
    IN  RLt(RDiv(RAbs(RSub(level, existing)), avg_price), tolerance)

\* mutant: every level starts a bucket of its own
MergeOne_append(merged, level, i, tolerance) == Append(merged, level)

\* mutant: a near level is dropped, its bucket keeps its price
RECURSIVE MergeOne_keep(_, _, _, _)
MergeOne_keep(merged, level, i, tolerance) ==
    IF i > Len(merged) THEN Append(merged, level)
    ELSE IF IsNear(level, merged[i], tolerance) THEN merged
         ELSE MergeOne_keep(merged, level, i + 1, tolerance)

\* the inner loop over merged, from position i: the first near bucket takes
\* the level, and the level is appended when the loop ends without a break
RECURSIVE MergeOne(_, _, _, _)
MergeOne(merged, level, i, tolerance) ==
    IF i > Len(merged) THEN Append(merged, level)
    ELSE IF IsNear(level, merged[i], tolerance)
         THEN [merged EXCEPT ![i] = RDiv(RAdd(merged[i], level), Num(2))]
         ELSE MergeOne(merged, level, i + 1, tolerance)

\* the outer loop over sorted_levels
RECURSIVE MergeLoop(_, _, _)
MergeLoop(sorted_levels, merged, tolerance) ==
    IF sorted_levels = <<>> THEN merged
    ELSE MergeLoop(Tail(sorted_levels),
                   IF merged = <<>> THEN <<Head(sorted_levels)>>
                   ELSE MergeOne(merged, Head(sorted_levels), 1, tolerance),
                   tolerance)

\* mutant: the input is scanned in the order given, without the first sort
_merge_levels_unsorted(levels, tolerance) ==
    IF levels = <<>> THEN <<>>
    ELSE SortedDesc(MergeLoop(levels, <<>>, tolerance))

_merge_levels(levels, tolerance) ==
    IF levels = <<>> THEN <<>>
    ELSE SortedDesc(MergeLoop(SortedDesc(levels), <<>>, tolerance))

MergeMaxLen == 3

\* levels to merge: small prices, and the prices 100, 100.3, 200
LevelValues == {Num(2), Num(3), Num(4), Num(100), Frac(1003, 10), Num(200)}

\* 0.005 is the default of the constructor
Tolerances == {Frac(5, 1000), Frac(1, 2)}

RECURSIVE SeqsUpTo(_, _)
SeqsUpTo(S, n) ==
    IF n = 0 THEN {<<>>}
    ELSE LET shorter == SeqsUpTo(S, n - 1)
         IN  shorter \cup {Append(q, x) : q \in {t \in shorter : Len(t) = n - 1}, x \in S}

InitMerge ==
    /\ pc = "merge"
    /\ df = NoFrame
    /\ args \in [levels: SeqsUpTo(LevelValues, MergeMaxLen), tolerance: Tolerances]
    /\ ret = NoRet

CallMergeLevels ==
    /\ pc = "merge"
    /\ ret' = _merge_levels(args.levels, args.tolerance)
    /\ pc' = "merged"
    /\ UNCHANGED <<df, args>>

NextMerge == CallMergeLevels

SpecMerge == InitMerge /\ [][NextMerge]_vars

\* The merge restated on integers: every price is a multiple of 1/10 and is
\* halved at most MergeMaxLen times, so price * MergeScale is an integer.
RECURSIVE Pow2(_)
Pow2(n) == IF n = 0 THEN 1 ELSE 2 * Pow2(n - 1)

MergeScale == 10 * Pow2(MergeMaxLen)

Scaled(x) == (x[1] * MergeScale) \div x[2]

SeqMax(q) == CHOOSE m \in {q[i] : i \in DOMAIN q} : \A i \in DOMAIN q : q[i] <= m

RemoveAt(q, i) == SubSeq(q, 1, i - 1) \o SubSeq(q, i + 1, Len(q))

RECURSIVE Descending(_)
Descending(q) ==
    IF q = <<>> THEN <<>>
    ELSE LET i == CHOOSE k \in DOMAIN q : q[k] = SeqMax(q)
         IN  <<q[i]>> \o Descending(RemoveAt(q, i))

\* |level - b| / ((level + b) / 2) < tn/td, for positive prices
Within(level, b, tol) == 2 * Abs(level - b) * tol[2] < tol[1] * (level + b)

\* the buckets after the levels q (descending) were taken one by one
RECURSIVE Buckets(_, _)
Buckets(q, tol) ==
    IF q = <<>> THEN <<>>
    ELSE LET before == Buckets(SubSeq(q, 1, Len(q) - 1), tol)
             level  == q[Len(q)]
             near   == {i \in DOMAIN before : Within(level, before[i], tol)}
         IN  IF near = {} THEN Append(before, level)
             ELSE LET first == CHOOSE i \in near : \A k \in near : i <= k
                  IN  [before EXCEPT ![first] = (before[first] + level) \div 2]

MergedLevels(levels, tol) ==
    LET out == Descending(Buckets(Descending([i \in DOMAIN levels |-> Scaled(levels[i])]), tol))
    IN  [i \in DOMAIN out |-> Frac(out[i], MergeScale)]

\* C7: the levels are taken in descending order; a level is merged into the
\* first bucket b with |level-b| / ((level+b)/2) < tolerance, which becomes
\* (b+level)/2, and starts a new bucket otherwise; the buckets are returned in
\* descending order.  [100, 100.3, 200] with tolerance 0.005 gives [200, 100.15].
C7_MergeLevels ==
    pc = "merged" =>
        /\ ret = MergedLevels(args.levels, args.tolerance)
        /\ (args.levels = <<Num(100), Frac(1003, 10), Num(200)>> /\ args.tolerance = Frac(5, 1000))
              => ret = <<Num(200), Frac(10015, 100)>>

C7_Witness ==
    /\ pc = "merged"
    /\ args.levels = <<Num(100), Frac(1003, 10), Num(200)>>
    /\ args.tolerance = Frac(5, 1000)
    /\ ret = <<Num(200), Frac(10015, 100)>>

\* mutant: a neighbour as high as bar i does not disqualify it
RECURSIVE IsPeakTies(_, _, _, _)
IsPeakTies(frame, i, j, window) ==
    IF j >= i + window + 1 THEN TRUE
    ELSE IF j = i THEN IsPeakTies(frame, i, j + 1, window)
    ELSE IF RGt(iloc(frame, j).high, iloc(frame, i).high) THEN FALSE
    ELSE IsPeakTies(frame, i, j + 1, window)

\* the loop "for j in range(i - window, i + window + 1)" on the highs, from j:
\* is_peak is cleared, and the loop left, at the first other bar that is as
\* high as bar i
RECURSIVE IsPeak(_, _, _, _)
IsPeak(frame, i, j, window) ==
    IF j >= i + window + 1 THEN TRUE
    ELSE IF j = i THEN IsPeak(frame, i, j + 1, window)
    ELSE IF RGe(iloc(frame, j).high, iloc(frame, i).high) THEN FALSE
    ELSE IsPeak(frame, i, j + 1, window)

RECURSIVE IsTrough(_, _, _, _)
IsTrough(frame, i, j, window) ==
    IF j >= i + window + 1 THEN TRUE
    ELSE IF j = i THEN IsTrough(frame, i, j + 1, window)
    ELSE IF RLe(iloc(frame, j).low, iloc(frame, i).low) THEN FALSE
    ELSE IsTrough(frame, i, j + 1, window)

\* the loop "for i in range(window, len(df) - window)", from i, with the two
\* lists built so far
RECURSIVE PivotScan(_, _, _, _, _)
PivotScan(frame, i, window, resistance_levels, support_levels) ==
    IF i >= Len(frame) - window THEN <<resistance_levels, support_levels>>
    ELSE PivotScan(frame, i + 1, window,
                   IF IsPeak(frame, i, i - window, window)
                   THEN Append(resistance_levels, iloc(frame, i).high)
                   ELSE resistance_levels,
                   IF IsTrough(frame, i, i - window, window)
                   THEN Append(support_levels, iloc(frame, i).low)
                   ELSE support_levels)

\* mutant: the pivots are returned as the scan found them
find_pivot_points_raw(frame, window, tolerance) ==
    IF Len(frame) < window * 2 THEN <<<<>>, <<>>>>
    ELSE PivotScan(frame, window, window, <<>>, <<>>)

find_pivot_points(frame, window, tolerance) ==
    IF Len(frame) < window * 2 THEN <<<<>>, <<>>>>
    ELSE LET raw == PivotScan(frame, window, window, <<>>, <<>>)
         IN  <<_merge_levels(raw[1], tolerance), _merge_levels(raw[2], tolerance)>>

PivotMaxLen == 5

PivotMaxPrice == 2

PivotMaxWindow == 2

PivotRows ==
    {r \in [high: {Num(x) : x \in 1..PivotMaxPrice}, low: {Num(x) : x \in 1..PivotMaxPrice}] :
        r.low[1] <= r.high[1]}

InitPivot ==
    /\ pc = "pivot"
    /\ df \in SeqsUpTo(PivotRows, PivotMaxLen)
    /\ args \in [window: 1..PivotMaxWindow, tolerance: {Frac(5, 1000)}]
    /\ ret = NoRet

CallFindPivotPoints ==
    /\ pc = "pivot"
    /\ ret' = find_pivot_points(df, args.window, args.tolerance)
    /\ pc' = "pivoted"
    /\ UNCHANGED <<df, args>>

NextPivot == CallFindPivotPoints

SpecPivot == InitPivot /\ [][NextPivot]_vars

\* the bars (0-based) that the rule makes resistance, resp. support, pivots
PeakBars(frame, w) ==
    {i \in 0..(Len(frame) - 1) :
        /\ w <= i /\ i < Len(frame) - w
        /\ \A j \in (i - w)..(i + w) :
              j # i => IntOf(iloc(frame, j).high) < IntOf(iloc(frame, i).high)}

TroughBars(frame, w) ==
    {i \in 0..(Len(frame) - 1) :
        /\ w <= i /\ i < Len(frame) - w
        /\ \A j \in (i - w)..(i + w) :
              j # i => IntOf(iloc(frame, j).low) > IntOf(iloc(frame, i).low)}

\* the members of a set of bars in ascending order
RECURSIVE Ascending(_)
Ascending(S) ==
    IF S = {} THEN <<>>
    ELSE LET m == CHOOSE x \in S : \A y \in S : x <= y
         IN  <<m>> \o Ascending(S \ {m})

Range(q) == {q[i] : i \in DOMAIN q}

\* C6: bar i gives its high as a resistance pivot iff window <= i < len-window
\* and its high is strictly above the high of every other bar of
\* [i-window, i+window] (a tie disqualifies it); the same with strict minima of
\* low for supports; a single strict maximum yields exactly that resistance,
\* and a series of length <= 2*window yields two empty lists.
C6_PivotRule ==
    pc = "pivoted" =>
        LET w     == args.window
            peaks == Ascending(PeakBars(df, w))
            trs   == Ascending(TroughBars(df, w))
            raw   == PivotScan(df, w, w, <<>>, <<>>)
        IN  /\ Len(df) >= 2 * w =>
                  /\ raw[1] = [k \in DOMAIN peaks |-> iloc(df, peaks[k]).high]
                  /\ raw[2] = [k \in DOMAIN trs |-> iloc(df, trs[k]).low]
            /\ Range(ret[1]) = {iloc(df, i).high : i \in PeakBars(df, w)}
            /\ Range(ret[2]) = {iloc(df, i).low : i \in TroughBars(df, w)}
            /\ Len(peaks) = 1 => ret[1] = <<iloc(df, peaks[1]).high>>
            /\ Len(trs) = 1 => ret[2] = <<iloc(df, trs[1]).low>>
            /\ Len(df) <= 2 * w => ret = <<<<>>, <<>>>>

\* a five-bar series with window 2 whose middle bar is the single strict
\* maximum, next to a tie that is not a pivot of window 1
C6_Witness ==
    /\ pc = "pivoted"
    /\ args.window = 2
    /\ Len(df) = 5
    /\ PeakBars(df, 2) = {2}
    /\ ret[1] = <<iloc(df, 2).high>>

\* a series of exactly 2*window bars: no bar is scanned
C6_WitnessShort ==
    /\ pc = "pivoted"
    /\ Len(df) = 2 * args.window
    /\ ret = <<<<>>, <<>>>>

\* the highs of the peak bars and the lows of the trough bars, in bar order
PeakHighs(frame, w) ==
    [k \in DOMAIN Ascending(PeakBars(frame, w)) |->
        iloc(frame, Ascending(PeakBars(frame, w))[k]).high]

TroughLows(frame, w) ==
    [k \in DOMAIN Ascending(TroughBars(frame, w)) |->
        iloc(frame, Ascending(TroughBars(frame, w))[k]).low]

\* C17 as stated: find_pivot_points returns the raw pivot prices, one entry per
\* pivot bar, each the high (low) of a pivot bar.
C17_RawPivots ==
    pc = "pivoted" =>
        /\ Len(ret[1]) = Cardinality(PeakBars(df, args.window))
        /\ Len(ret[2]) = Cardinality(TroughBars(df, args.window))
        /\ Range(ret[1]) \subseteq {iloc(df, i).high : i \in PeakBars(df, args.window)}
        /\ Range(ret[2]) \subseteq {iloc(df, i).low : i \in TroughBars(df, args.window)}

\* C17 amended: find_pivot_points returns the merged levels of the pivot highs
\* and of the pivot lows: pivots within the tolerance of each other, equal
\* prices included, give one entry (their mean), and each list is in strictly
\* descending price order.
C17_MergedPivots ==
    pc = "pivoted" =>
        /\ ret[1] = MergedLevels(PeakHighs(df, args.window), args.tolerance)
        /\ ret[2] = MergedLevels(TroughLows(df, args.window), args.tolerance)
        /\ \A i \in 1..(Len(ret[1]) - 1) : RGt(ret[1][i], ret[1][i + 1])
        /\ \A i \in 1..(Len(ret[2]) - 1) : RGt(ret[2][i], ret[2][i + 1])

\* two peak bars with the same high, returned as one level
C17_Witness ==
    /\ pc = "pivoted"
    /\ Cardinality(PeakBars(df, args.window)) = 2
    /\ Len(ret[1]) = 1
    /\ Cardinality(TroughBars(df, args.window)) = 1
    /\ Len(ret[2]) = 1

(***************************************************************************)
(* indicators.py.  A price column is a sequence of numbers; position i of  *)
(* the sequence is row i-1 of the frame.                                   *)
(***************************************************************************)
Max2(a, b) == IF a > b THEN a ELSE b

RECURSIVE SumSeq(_, _, _)
SumSeq(x, lo, hi) == IF lo > hi THEN Num(0) ELSE RAdd(x[lo], SumSeq(x, lo + 1, hi))

\* Series.rolling(window, min_periods).mean()
rolling_mean(x, window, min_periods) ==
    [i \in 1..Len(x) |->
        LET lo  == Max2(1, i - window + 1)
            cnt == i - lo + 1
        IN  IF cnt < min_periods THEN NaN ELSE RDiv(SumSeq(x, lo, i), Num(cnt))]

RECURSIVE MinSeq(_, _, _)
MinSeq(x, lo, hi) == IF lo = hi THEN x[lo] ELSE RMin(x[lo], MinSeq(x, lo + 1, hi))

RECURSIVE MaxSeq(_, _, _)
MaxSeq(x, lo, hi) == IF lo = hi THEN x[lo] ELSE RMax(x[lo], MaxSeq(x, lo + 1, hi))

\* Series.rolling(window, min_periods).min() and .max()
rolling_min(x, window, min_periods) ==
    [i \in 1..Len(x) |->
        LET lo == Max2(1, i - window + 1)
        IN  IF i - lo + 1 < min_periods THEN NaN ELSE MinSeq(x, lo, i)]

rolling_max(x, window, min_periods) ==
    [i \in 1..Len(x) |->
        LET lo == Max2(1, i - window + 1)
        IN  IF i - lo + 1 < min_periods THEN NaN ELSE MaxSeq(x, lo, i)]

\* Series.ewm(alpha, adjust=False).mean(): y[0] = x[0],
\* y[t] = (1 - alpha) * y[t-1] + alpha * x[t]
RECURSIVE EwmLoop(_, _, _)
EwmLoop(x, alpha, y) ==
    IF Len(y) = Len(x) THEN y
    ELSE LET t == Len(y) + 1
         IN  EwmLoop(x, alpha,
                     Append(y, IF t = 1 THEN x[1]
                               ELSE RAdd(RMul(RSub(Num(1), alpha), y[t - 1]), RMul(alpha, x[t]))))

ewm_mean(x, alpha) == EwmLoop(x, alpha, <<>>)

\* Series.ewm(com, adjust=True).mean(): the weighted mean with weights
\* (1 - alpha)^i, alpha = 1 / (1 + com), kept as a running numerator and
\* denominator
RECURSIVE EwmAdjLoop(_, _, _, _, _)
EwmAdjLoop(x, alpha, num, den, y) ==
    IF Len(y) = Len(x) THEN y
    ELSE LET t  == Len(y) + 1
             n1 == RAdd(RMul(RSub(Num(1), alpha), num), x[t])
             d1 == RAdd(RMul(RSub(Num(1), alpha), den), Num(1))
         IN  EwmAdjLoop(x, alpha, n1, d1, Append(y, RDiv(n1, d1)))

ewm_mean_adjusted(x, com) == EwmAdjLoop(x, RDiv(Num(1), Num(1 + com)), Num(0), Num(0), <<>>)

ma(close, n, min_periods) == rolling_mean(close, n, min_periods)

ema(close, n) == ewm_mean(close, RDiv(Num(2), Num(n + 1)))

SeqSub(a, b) == [i \in 1..Len(a) |-> RSub(a[i], b[i])]

\* the frame macd returns, from its dif and dea columns
MacdFrame(dif, dea) == [dif |-> dif, dea |-> dea, macd_hist |-> SeqSub(dif, dea)]

MacdOfDif(dif, signal) == MacdFrame(dif, ewm_mean(dif, RDiv(Num(2), Num(signal + 1))))

macd(close, fast, slow, signal) ==
    MacdOfDif(SeqSub(ema(close, fast), ema(close, slow)), signal)

\* close.diff(): NaN in the first row
diff(close) == [i \in 1..Len(close) |-> IF i = 1 THEN NaN ELSE RSub(close[i], close[i - 1])]

\* mutant: the zero average loss is not replaced
keep_zero(x) == x

\* avg_loss.replace(0, np.nan)
replace_zero(x) == [i \in 1..Len(x) |-> IF REq(x[i], Num(0)) THEN NaN ELSE x[i]]

RsiSmooth(x, n, method) ==
    IF method = "ema" THEN ewm_mean(x, RDiv(Num(1), Num(n)))
    ELSE IF method = "sma" THEN rolling_mean(x, n, 1)
    ELSE ewm_mean_adjusted(x, n - 1)

\* delta.where(delta > 0, 0)
Gain(delta) == [i \in 1..Len(delta) |-> IF RGt(delta[i], Num(0)) THEN delta[i] ELSE Num(0)]

\* -delta.where(delta < 0, 0)
Loss(delta) == [i \in 1..Len(delta) |-> RNeg(IF RLt(delta[i], Num(0)) THEN delta[i] ELSE Num(0))]

\* 100 - (100 / (1 + avg_gain / guarded))
RsiValue(avg_gain, guarded) ==
    [i \in 1..Len(avg_gain) |->
        RSub(Num(100), RDiv(Num(100), RAdd(Num(1), RDiv(avg_gain[i], guarded[i]))))]

\* method is one of ema, sma, china (any other raises ValueError)
rsi(close, n, method) ==
    RsiValue(RsiSmooth(Gain(diff(close)), n, method),
             replace_zero(RsiSmooth(Loss(diff(close)), n, method)))

\* rsv.replace([np.inf, -np.inf], np.nan)
replace_inf(x) == [i \in 1..Len(x) |-> IF isinf(x[i]) THEN NaN ELSE x[i]]

\* mutant: a bar without RSV resets the carried K and D to 50
RECURSIVE KdjLoopReset(_, _, _, _, _, _, _)
KdjLoopReset(rsv, alpha_k, alpha_d, last_k, last_d, k, d) ==
    IF Len(k) = Len(rsv) THEN [k |-> k, d |-> d]
    ELSE LET rv == rsv[Len(k) + 1]
         IN  IF isnan(rv)
             THEN KdjLoopReset(rsv, alpha_k, alpha_d, Num(50), Num(50), Append(k, NaN), Append(d, NaN))
             ELSE LET curr_k == RAdd(RMul(RSub(Num(1), alpha_k), last_k), RMul(alpha_k, rv))
                      curr_d == RAdd(RMul(RSub(Num(1), alpha_d), last_d), RMul(alpha_d, curr_k))
                  IN  KdjLoopReset(rsv, alpha_k, alpha_d, curr_k, curr_d,
                                   Append(k, curr_k), Append(d, curr_d))

\* the loop "for i in range(len(close))" of kdj, with last_k, last_d and the
\* k and d columns filled so far
RECURSIVE KdjLoop(_, _, _, _, _, _, _)
KdjLoop(rsv, alpha_k, alpha_d, last_k, last_d, k, d) ==
    IF Len(k) = Len(rsv) THEN [k |-> k, d |-> d]
    ELSE LET rv == rsv[Len(k) + 1]
         IN  IF isnan(rv)
             THEN KdjLoop(rsv, alpha_k, alpha_d, last_k, last_d, Append(k, NaN), Append(d, NaN))
             ELSE LET curr_k == RAdd(RMul(RSub(Num(1), alpha_k), last_k), RMul(alpha_k, rv))
                      curr_d == RAdd(RMul(RSub(Num(1), alpha_d), last_d), RMul(alpha_d, curr_k))
                  IN  KdjLoop(rsv, alpha_k, alpha_d, curr_k, curr_d,
                              Append(k, curr_k), Append(d, curr_d))

\* (close - lowest_low) / (highest_high - lowest_low) * 100
Rsv(close, lowest_low, highest_high) ==
    [i \in 1..Len(close) |->
        RMul(RDiv(RSub(close[i], lowest_low[i]),
                  RSub(highest_high[i], lowest_low[i])), Num(100))]

\* the frame kdj returns, from the k and d columns of the loop
KdjFrame(kd) ==
    [kdj_k |-> kd.k, kdj_d |-> kd.d,
     kdj_j |-> [i \in 1..Len(kd.k) |-> RSub(RMul(Num(3), kd.k[i]), RMul(Num(2), kd.d[i]))]]

kdj(high, low, close, n, m1, m2) ==
    KdjFrame(KdjLoop(replace_inf(Rsv(close, rolling_min(low, n, n), rolling_max(high, n, n))),
                     RDiv(Num(1), Num(m1)), RDiv(Num(1), Num(m2)),
                     Num(50), Num(50), <<>>, <<>>))

KdjMaxLen == 4

\* two price levels give every case of the window: no range, a close at either
\* end of the range, and a close outside a window without range
KdjPrices == {1, 2}

\* rows high, low, close with low <= high; the close may lie outside them
KdjRows ==
    {r \in [high: {Num(x) : x \in KdjPrices}, low: {Num(x) : x \in KdjPrices},
            close: {Num(x) : x \in KdjPrices}] : r.low[1] <= r.high[1]}

Column(frame, name) == [i \in 1..Len(frame) |-> frame[i][name]]

\* the defaults are n = 9, m1 = 3, m2 = 3
InitKdj ==
    /\ pc = "kdj"
    /\ df \in SeqsUpTo(KdjRows, KdjMaxLen)
    /\ args \in [n: {2, 3}, m1: {2, 3}, m2: {3}]
    /\ ret = NoRet

CallKdj ==
    /\ pc = "kdj"
    /\ ret' = kdj(Column(df, "high"), Column(df, "low"), Column(df, "close"),
                  args.n, args.m1, args.m2)
    /\ pc' = "kdj_done"
    /\ UNCHANGED <<df, args>>

NextKdj == CallKdj

SpecKdj == InitKdj /\ [][NextKdj]_vars

\* the highest high and the lowest low of the n rows ending at position i
WindowHigh(frame, i, n) ==
    CHOOSE m \in {IntOf(frame[t].high) : t \in (i - n + 1)..i} :
        \A t \in (i - n + 1)..i : IntOf(frame[t].high) <= m

WindowLow(frame, i, n) ==
    CHOOSE m \in {IntOf(frame[t].low) : t \in (i - n + 1)..i} :
        \A t \in (i - n + 1)..i : IntOf(frame[t].low) >= m

\* RSV is defined at position i: n rows of history and a window with a range
\* (without a range the quotient is 0/0 or x/0: nan or an infinity)
RsvDefined(frame, i, n) ==
    i >= n /\ WindowHigh(frame, i, n) # WindowLow(frame, i, n)

RsvAt(frame, i, n) ==
    Frac(100 * (IntOf(frame[i].close) - WindowLow(frame, i, n)),
         WindowHigh(frame, i, n) - WindowLow(frame, i, n))

\* the last position before i with a defined RSV, 0 when there is none
LastDefined(frame, i, n) ==
    LET earlier == {p \in 1..(i - 1) : RsvDefined(frame, p, n)}
    IN  IF earlier = {} THEN 0 ELSE CHOOSE p \in earlier : \A q \in earlier : q <= p

Smooth(m, prev, x) ==
    RAdd(RMul(RSub(Num(1), RDiv(Num(1), Num(m))), prev), RMul(RDiv(Num(1), Num(m)), x))

\* C2: K, D and J are undefined wherever RSV is undefined; at the first bar
\* with a defined RSV, K = (1-1/m1)*50 + RSV/m1 and D = (1-1/m2)*50 + K/m2; at a
\* later bar with a defined RSV they continue from the K and D of the most
\* recent earlier bar with a defined RSV; J = 3K - 2D.
C2_KdjRecurrence ==
    pc = "kdj_done" =>
        \A i \in 1..Len(df) :
            IF ~RsvDefined(df, i, args.n)
            THEN isnan(ret.kdj_k[i]) /\ isnan(ret.kdj_d[i]) /\ isnan(ret.kdj_j[i])
            ELSE LET p     == LastDefined(df, i, args.n)
                     prevK == IF p = 0 THEN Num(50) ELSE ret.kdj_k[p]
                     prevD == IF p = 0 THEN Num(50) ELSE ret.kdj_d[p]
                 IN  /\ ret.kdj_k[i] = Smooth(args.m1, prevK, RsvAt(df, i, args.n))
                     /\ ret.kdj_d[i] = Smooth(args.m2, prevD, ret.kdj_k[i])
                     /\ ret.kdj_j[i] = RSub(RMul(Num(3), ret.kdj_k[i]), RMul(Num(2), ret.kdj_d[i]))
                     /\ IsFinite(ret.kdj_k[i])

\* a bar with a defined RSV that follows a bar without one and continues from
\* an earlier bar whose K is not the seed
C2_Witness ==
    /\ pc = "kdj_done"
    /\ \E i \in 3..Len(df) :
          /\ RsvDefined(df, i, args.n)
          /\ ~RsvDefined(df, i - 1, args.n)
          /\ LastDefined(df, i, args.n) > 0
          /\ ret.kdj_k[LastDefined(df, i, args.n)] # Num(50)
          /\ isnan(ret.kdj_k[i - 1])
          /\ IsFinite(ret.kdj_k[i])

RsiMaxLen == 4

RsiMaxPrice == 3

\* the periods of add_all_indicators are 14 (ema, sma) and 6, 12, 24 (china)
InitRsi ==
    /\ pc = "rsi"
    /\ df \in SeqsUpTo({[close |-> Num(x)] : x \in 1..RsiMaxPrice}, RsiMaxLen)
    /\ args \in [n: {2, 14}, method: {"ema", "sma", "china"}]
    /\ ret = NoRet

CallRsi ==
    /\ pc = "rsi"
    /\ ret' = rsi(Column(df, "close"), args.n, args.method)
    /\ pc' = "rsi_done"
    /\ UNCHANGED <<df, args>>

NextRsi == CallRsi

SpecRsi == InitRsi /\ [][NextRsi]_vars

\* the close fell from position t-1 to position t
DownMove(frame, t) == t >= 2 /\ IntOf(frame[t].close) < IntOf(frame[t - 1].close)

\* the smoothed average loss at position i is zero: sma averages the last n
\* losses, ema and china weigh every loss so far
ZeroAvgLoss(frame, i, n, method) ==
    IF method = "sma"
    THEN \A t \in Max2(1, i - n + 1)..i : ~DownMove(frame, t)
    ELSE \A t \in 1..i : ~DownMove(frame, t)

\* C5: every RSI value is undefined or within [0, 100]; it is undefined
\* wherever the smoothed average loss is zero, and always at index 0.
C5_RsiRange ==
    pc = "rsi_done" =>
        /\ \A i \in 1..Len(df) :
              /\ isnan(ret[i]) \/ (IsFinite(ret[i]) /\ RGe(ret[i], Num(0)) /\ RLe(ret[i], Num(100)))
              /\ ZeroAvgLoss(df, i, args.n, args.method) => isnan(ret[i])
        /\ Len(df) >= 1 => isnan(ret[1])

\* a series with a defined RSI followed, under sma, by a bar whose window
\* holds no loss
C5_Witness ==
    /\ pc = "rsi_done"
    /\ args.method = "sma" /\ args.n = 2
    /\ Len(df) = 4
    /\ IsFinite(ret[2]) /\ RGt(ret[3], Num(0)) /\ RLt(ret[3], Num(100))
    /\ ZeroAvgLoss(df, 4, 2, "sma") /\ isnan(ret[4])

(***************************************************************************)
(* indicators.py: Bollinger bands and add_all_indicators.  A frame is its  *)
(* sequence of rows, a row a function from column names to numbers.        *)
(***************************************************************************)
\* the largest r in lo..hi with r * r <= x
RECURSIVE ISqrtBetween(_, _, _)
ISqrtBetween(x, lo, hi) ==
    IF lo >= hi THEN lo
    ELSE LET mid == (lo + hi + 1) \div 2
         IN  IF mid * mid <= x THEN ISqrtBetween(x, mid, hi)
             ELSE ISqrtBetween(x, lo, mid - 1)

\* floor(sqrt(x)) of a 32-bit x
ISqrt(x) == ISqrtBetween(x, 0, 46340)

\* the square root of a finite number, rounded down to the grid unless exact
RSqrt(a) ==
    IF isnan(a) THEN NaN
    ELSE IF a = PosInf THEN PosInf
    ELSE IF a[1] < 0 THEN NaN
    ELSE LET sn == ISqrt(a[1])
             sd == ISqrt(a[2])
         IN  IF sn * sn = a[1] /\ sd * sd = a[2] THEN <<sn, sd>>
             ELSE LET m == (a[1] \div a[2]) * Grid + MulDivMod(a[1] % a[2], Grid, a[2])[1]
                  IN  Norm(ISqrt(m * Grid), Grid)

RECURSIVE SumSqDev(_, _, _, _)
SumSqDev(x, mean, lo, hi) ==
    IF lo > hi THEN Num(0)
    ELSE RAdd(RMul(RSub(x[lo], mean), RSub(x[lo], mean)), SumSqDev(x, mean, lo + 1, hi))

\* Series.rolling(window, min_periods).std(): the sample deviation (ddof=1),
\* undefined on a window of one observation
rolling_std(x, window, min_periods) ==
    [i \in 1..Len(x) |->
        LET lo   == Max2(1, i - window + 1)
            cnt  == i - lo + 1
            mean == RDiv(SumSeq(x, lo, i), Num(cnt))
        IN  IF cnt < min_periods \/ cnt < 2 THEN NaN
            ELSE RSqrt(RDiv(SumSqDev(x, mean, lo, i), Num(cnt - 1)))]

\* the frame boll returns, from the rolling mean and deviation
BollFrame(mid, std, k) ==
    [boll_mid   |-> mid,
     boll_upper |-> [i \in 1..Len(mid) |-> RAdd(mid[i], RMul(k, std[i]))],
     boll_lower |-> [i \in 1..Len(mid) |-> RSub(mid[i], RMul(k, std[i]))]]

boll(close, n, k, min_periods) ==
    BollFrame(rolling_mean(close, n, min_periods), rolling_std(close, n, min_periods), k)

\* df.columns; the frames of this model have at least one row
Columns(frame) == IF frame = <<>> THEN {} ELSE DOMAIN frame[1]

\* df[name] = series, for every name of cols
AssignColumns(frame, cols) ==
    [i \in 1..Len(frame) |->
        [c \in DOMAIN frame[i] \cup DOMAIN cols |->
            IF c \in DOMAIN cols THEN cols[c][i] ELSE frame[i][c]]]

RsiColumns(close, rsi_style) ==
    IF rsi_style = "china"
    THEN [rsi6  |-> rsi(close, 6, "china"),
          rsi12 |-> rsi(close, 12, "china"),
          rsi24 |-> rsi(close, 24, "china"),
          rsi14 |-> rsi(close, 14, "sma"),
          rsi   |-> rsi(close, 12, "china")]
    ELSE [rsi |-> rsi(close, 14, "ema")]

\* the blocks of add_all_indicators, each reading df['close'] and writing its
\* columns
AddMa(frame) ==
    AssignColumns(frame, [ma5  |-> ma(Column(frame, "close"), 5, 1),
                          ma10 |-> ma(Column(frame, "close"), 10, 1),
                          ma20 |-> ma(Column(frame, "close"), 20, 1),
                          ma60 |-> ma(Column(frame, "close"), 60, 1)])

AddRsi(frame, rsi_style) == AssignColumns(frame, RsiColumns(Column(frame, "close"), rsi_style))

MacdColumns(macd_df) ==
    [macd_dif |-> macd_df.dif,
     macd_dea |-> macd_df.dea,
     macd     |-> [i \in 1..Len(macd_df.dif) |-> RMul(macd_df.macd_hist[i], Num(2))]]

AddMacd(frame) == AssignColumns(frame, MacdColumns(macd(Column(frame, "close"), 12, 26, 9)))

AddBoll(frame) == AssignColumns(frame, boll(Column(frame, "close"), 20, Num(2), 1))

\* mutant: a missing high or low column is taken from the close
AddKdjFromClose(frame) ==
    AssignColumns(frame,
        kdj(Column(frame, IF "high" \in Columns(frame) THEN "high" ELSE "close"),
            Column(frame, IF "low" \in Columns(frame) THEN "low" ELSE "close"),
            Column(frame, "close"), 9, 3, 3))

AddKdj(frame) ==
    IF {"high", "low", "close"} \subseteq Columns(frame)
    THEN AssignColumns(frame, kdj(Column(frame, "high"), Column(frame, "low"),
                                  Column(frame, "close"), 9, 3, 3))
    ELSE frame

\* mutant: the columns are assigned to a copy, the frame given keeps its own
add_all_indicators_on_copy(frame, rsi_style) == frame

\* the frame add_all_indicators leaves behind when the close column exists
add_all_indicators(frame, rsi_style) ==
    AddKdj(AddBoll(AddMacd(AddRsi(AddMa(frame), rsi_style))))

(***************************************************************************)
(* trend_analyzer.py: the verdicts read off the last two rows.  Signal     *)
(* texts are transliterated.                                               *)
(***************************************************************************)
\* Python's None where a number is expected
NoneValue == <<0, -1>>

\* pd.isna
isna(v) == v = NoneValue \/ isnan(v)

\* row.get(name), row.get(name, default)
Get(row, name) == IF name \in DOMAIN row THEN row[name] ELSE NoneValue

GetOr(row, name, default) == IF name \in DOMAIN row THEN row[name] ELSE default

\* the truth value of a number: None and zero are false, NaN is true
Truthy(v) == v # NoneValue /\ v # Num(0)

Latest(frame) == frame[Len(frame)]

Prev(frame) == IF Len(frame) > 1 THEN frame[Len(frame) - 1] ELSE Latest(frame)

\* the inverted arrangement test: rising averages read as falling
_analyze_ma_trend_inverted(frame) ==
    IF Len(frame) < 20 THEN [trend |-> "unknown", signal |-> ""]
    ELSE LET latest == Latest(frame)
             ma5  == Get(latest, "ma5")
             ma10 == Get(latest, "ma10")
             ma20 == Get(latest, "ma20")
             ma60 == Get(latest, "ma60")
         IN  IF RLt(ma5, ma10) /\ RLt(ma10, ma20)
             THEN [trend |-> IF Truthy(ma60) /\ ~isna(ma60) /\ RLt(ma20, ma60)
                             THEN "strong_up" ELSE "up", signal |-> "duotou"]
             ELSE IF RGt(ma5, ma10) /\ RGt(ma10, ma20)
             THEN [trend |-> IF Truthy(ma60) /\ ~isna(ma60) /\ RGt(ma20, ma60)
                             THEN "strong_down" ELSE "down", signal |-> "kongtou"]
             ELSE [trend |-> "sideways", signal |-> "junxian_jiuchan"]

\* arrangements: duotou pailie (bullish), duanqi duotou (short-term bullish),
\* kongtou pailie (bearish), duanqi kongtou (short-term bearish), junxian
\* jiuchan (tangled); positions: above the 5-bar line, below the 20-bar line,
\* between them
_analyze_ma_trend(frame) ==
    IF Len(frame) < 20 THEN [trend |-> "unknown", signal |-> ""]
    ELSE IF "ma5" \notin Columns(frame) \/ "ma20" \notin Columns(frame)
    THEN [trend |-> "unknown", signal |-> "junxian_shuju_buzu"]
    ELSE LET latest == Latest(frame)
             ma5  == Get(latest, "ma5")
             ma10 == Get(latest, "ma10")
             ma20 == Get(latest, "ma20")
             ma60 == Get(latest, "ma60")
             arr  == IF RGt(ma5, ma10) /\ RGt(ma10, ma20)
                     THEN (IF Truthy(ma60) /\ ~isna(ma60) /\ RGt(ma20, ma60)
                           THEN <<"duotou_pailie", "strong_up">>
                           ELSE <<"duanqi_duotou", "up">>)
                     ELSE IF RLt(ma5, ma10) /\ RLt(ma10, ma20)
                     THEN (IF Truthy(ma60) /\ ~isna(ma60) /\ RLt(ma20, ma60)
                           THEN <<"kongtou_pailie", "strong_down">>
                           ELSE <<"duanqi_kongtou", "down">>)
                     ELSE <<"junxian_jiuchan", "sideways">>
             price == latest.close
             price_position == IF RGt(price, ma5) THEN "zhanshang_5"
                               ELSE IF RLt(price, ma20) THEN "diepo_20"
                               ELSE "zai_5_he_20_zhijian"
         IN  IF isna(ma5) \/ isna(ma10) \/ isna(ma20)
             THEN [trend |-> "unknown", signal |-> "junxian_jisuan_zhong"]
             ELSE [trend |-> arr[2], ma_arrangement |-> arr[1],
                   price_position |-> price_position,
                   signal |-> <<arr[1], price_position>>]

\* signals: jincha (golden cross), shangchuan chixu (stays above), sicha
\* (death cross), xiachuan chixu (stays below); bars: hongzhu (red), lvzhu (green)
\* mutant: the histogram is not required
_analyze_macd_trend_no_hist(frame) ==
    IF "macd_dif" \notin Columns(frame) \/ "macd_dea" \notin Columns(frame)
    THEN [trend |-> "unknown", signal |-> "macd_shuju_buzu"]
    ELSE IF isna(Get(Latest(frame), "macd_dif")) \/ isna(Get(Latest(frame), "macd_dea"))
    THEN [trend |-> "unknown", signal |-> "macd_jisuan_zhong"]
    ELSE IF RGt(Latest(frame).macd_dif, Latest(frame).macd_dea)
    THEN [trend |-> "up", signal |-> "dif_shangchuan_chixu"]
    ELSE [trend |-> "down", signal |-> "dif_xiachuan_chixu"]

_analyze_macd_trend(frame) ==
    IF "macd_dif" \notin Columns(frame) \/ "macd_dea" \notin Columns(frame)
    THEN [trend |-> "unknown", signal |-> "macd_shuju_buzu"]
    ELSE LET latest == Latest(frame)
             prev   == Prev(frame)
             dif    == Get(latest, "macd_dif")
             dea    == Get(latest, "macd_dea")
             hist   == Get(latest, "macd")
             pdif   == GetOr(prev, "macd_dif", Num(0))
             pdea   == GetOr(prev, "macd_dea", Num(0))
         IN  IF isna(dif) \/ isna(dea) \/ isna(hist)
             THEN [trend |-> "unknown", signal |-> "macd_jisuan_zhong"]
             ELSE IF RGt(dif, dea)
             THEN [trend |-> "up",
                   signal |-> IF RLe(pdif, pdea) THEN "macd_jincha" ELSE "dif_shangchuan_chixu",
                   dif_dea_relation |-> "dif_zai_dea_shangfang",
                   macd_bar |-> IF RGt(hist, Num(0)) THEN "hongzhu" ELSE "lvzhu"]
             ELSE [trend |-> "down",
                   signal |-> IF RGe(pdif, pdea) THEN "macd_sicha" ELSE "dif_xiachuan_chixu",
                   dif_dea_relation |-> "dif_zai_dea_xiafang",
                   macd_bar |-> IF RGt(hist, Num(0)) THEN "hongzhu" ELSE "lvzhu"]

\* zones: chaomai3 (overbought, K > 80), chaomai4 (oversold, K < 20), zhongxing
\* (neutral)
_analyze_kdj_trend(frame) ==
    IF "kdj_k" \notin Columns(frame) \/ "kdj_d" \notin Columns(frame)
    THEN [trend |-> "unknown", signal |-> "kdj_shuju_buzu"]
    ELSE LET latest == Latest(frame)
             prev   == Prev(frame)
             k      == Get(latest, "kdj_k")
             d      == Get(latest, "kdj_d")
             j      == Get(latest, "kdj_j")
             pk     == GetOr(prev, "kdj_k", Num(0))
             pd     == GetOr(prev, "kdj_d", Num(0))
             k_zone == IF RGt(k, Num(80)) THEN "chaomai3_qu"
                       ELSE IF RLt(k, Num(20)) THEN "chaomai4_qu"
                       ELSE "zhongxing_qu"
         IN  IF isna(k) \/ isna(d) \/ isna(j)
             THEN [trend |-> "unknown", signal |-> "kdj_jisuan_zhong"]
             ELSE IF RGt(k, d)
             THEN [trend |-> "up",
                   signal |-> IF RLe(pk, pd) THEN "kdj_jincha" ELSE "k_shangchuan_d_chixu",
                   k_zone |-> k_zone, k_value |-> k, d_value |-> d]
             ELSE [trend |-> "down",
                   signal |-> IF RGe(pk, pd) THEN "kdj_sicha" ELSE "k_xiachuan_d_chixu",
                   k_zone |-> k_zone, k_value |-> k, d_value |-> d]

\* positions: tupo shanggui (above the upper band), diepo xiagui (below the
\* lower band), between upper and middle, between middle and lower
_analyze_boll_position(frame) ==
    IF "boll_upper" \notin Columns(frame) \/ "boll_lower" \notin Columns(frame)
    THEN [position |-> "unknown", signal |-> "boll_shuju_buzu"]
    ELSE LET latest == Latest(frame)
             price  == latest.close
             upper  == Get(latest, "boll_upper")
             mid    == Get(latest, "boll_mid")
             lower  == Get(latest, "boll_lower")
             boll_width   == RSub(upper, lower)
             position_pct == IF RGt(boll_width, Num(0))
                             THEN RMul(RDiv(RSub(price, lower), boll_width), Num(100))
                             ELSE Num(50)
         IN  IF isna(upper) \/ isna(mid) \/ isna(lower)
             THEN [position |-> "unknown", signal |-> "boll_jisuan_zhong"]
             ELSE IF RGt(price, upper)
             THEN [position |-> "tupo_shanggui", signal |-> "qiangshi_tupo",
                   position_pct |-> position_pct]
             ELSE IF RLt(price, lower)
             THEN [position |-> "diepo_xiagui", signal |-> "ruoshi_diepo",
                   position_pct |-> position_pct]
             ELSE IF RGt(price, mid)
             THEN [position |-> "shanggui_zhonggui_zhijian", signal |-> "pianqiang",
                   position_pct |-> position_pct]
             ELSE [position |-> "zhonggui_xiagui_zhijian", signal |-> "pianruo",
                   position_pct |-> position_pct]

\* 'strong' in ma_trend: of the sub-verdicts only strong_up and strong_down
StrongTrends == {"strong_up", "strong_down"}

\* 'tupo' in boll_pos: of the band signals only qiangshi_tupo
BreakoutSignals == {"qiangshi_tupo"}

\* mutant: the strength repeats the grade of the moving-average verdict
_get_trend_strength_graded(analysis) ==
    IF analysis.ma_trend.trend \in StrongTrends THEN analysis.ma_trend.trend
    ELSE IF analysis.boll_position.signal \in BreakoutSignals THEN "strong"
    ELSE IF analysis.ma_trend.trend \in {"up", "down"} THEN "moderate"
    ELSE "weak"

\* mutant: a close below the lower band counts like a breakout
_get_trend_strength_breakdown(analysis) ==
    IF analysis.ma_trend.trend \in StrongTrends
       \/ analysis.boll_position.signal \in BreakoutSignals \cup {"ruoshi_diepo"}
    THEN "strong"
    ELSE IF analysis.ma_trend.trend \in {"up", "down"} THEN "moderate"
    ELSE "weak"

_get_trend_strength(analysis) ==
    LET ma_trend == analysis.ma_trend.trend
        boll_pos == analysis.boll_position.signal
    IN  IF ma_trend \in StrongTrends \/ boll_pos \in BreakoutSignals THEN "strong"
        ELSE IF ma_trend \in {"up", "down"} THEN "moderate"
        ELSE "weak"

\* the result dictionary, without its report text, from the four verdicts
TrendResult(frame, period_name, ma_trend, macd_trend, kdj_trend, boll_position) ==
    [period           |-> period_name,
     current_price    |-> Latest(frame).close,
     price_change     |-> IF Len(frame) > 1
                          THEN RSub(Latest(frame).close, Prev(frame).close)
                          ELSE Num(0),
     price_change_pct |-> IF Len(frame) > 1
                          THEN RMul(RDiv(RSub(Latest(frame).close, Prev(frame).close),
                                         Prev(frame).close), Num(100))
                          ELSE Num(0),
     ma_trend         |-> ma_trend,
     macd_trend       |-> macd_trend,
     kdj_trend        |-> kdj_trend,
     rsi_value        |-> IF "rsi" \in Columns(frame) /\ ~isna(Get(Latest(frame), "rsi"))
                          THEN Latest(frame).rsi ELSE NoneValue,
     boll_position    |-> boll_position,
     trend            |-> _get_overall_trend([ma_trend |-> ma_trend, macd_trend |-> macd_trend,
                                              kdj_trend |-> kdj_trend]),
     strength         |-> _get_trend_strength([ma_trend |-> ma_trend,
                                               boll_position |-> boll_position])]

\* mutant: only the empty frame is answered without reading the indicators
analyze_trend_nonempty(frame, period_name) ==
    IF frame = <<>>
    THEN [period |-> period_name, trend |-> "unknown", strength |-> "unknown",
          analysis |-> "shuju_buzu"]
    ELSE TrendResult(frame, period_name, _analyze_ma_trend(frame), _analyze_macd_trend(frame),
                     _analyze_kdj_trend(frame), _analyze_boll_position(frame))

\* shuju buzu: not enough data
analyze_trend(frame, period_name) ==
    IF frame = <<>> \/ Len(frame) < 20
    THEN [period |-> period_name, trend |-> "unknown", strength |-> "unknown",
          analysis |-> "shuju_buzu"]
    ELSE TrendResult(frame, period_name, _analyze_ma_trend(frame), _analyze_macd_trend(frame),
                     _analyze_kdj_trend(frame), _analyze_boll_position(frame))

(***************************************************************************)
(* The pipeline of main.py: a frame of bars is annotated in place by       *)
(* add_all_indicators and then read by analyze_trend.  The frames are      *)
(* synthetic series without wicks: the close moves by a fixed step and the *)
(* open lies a fixed offset below the close.                               *)
(***************************************************************************)
ScenarioBars == 30

PipeMaxStart == 5

Steps == {-1, 0, 1}

Offsets == {-1, 0, 1}

\* a falling series ends at the base price, the others start there
ScenarioClose(base, step, i) ==
    IF step < 0 THEN base + (ScenarioBars - i) ELSE base + step * (i - 1)

ScenarioRow(base, step, offset, i) ==
    LET c == ScenarioClose(base, step, i)
        o == c - offset
    IN  [open  |-> Num(o),
         high  |-> Num(IF o > c THEN o ELSE c),
         low   |-> Num(IF o < c THEN o ELSE c),
         close |-> Num(c)]

Restrict(row, names) == [c \in names |-> row[c]]

ColumnSets == {{"open", "high", "low", "close"}, {"close"}, {"open", "high", "close"},
               {"open", "high", "low"}}

ScenarioFrame(base, step, offset, names) ==
    [i \in 1..ScenarioBars |-> Restrict(ScenarioRow(base, step, offset, i), names)]

\* rixian: the daily period
InitPipeline ==
    /\ pc = "raw"
    /\ \E base \in 2..PipeMaxStart, step \in Steps, offset \in Offsets, names \in ColumnSets :
          df = ScenarioFrame(base, step, offset, names)
    /\ args \in [rsi_style: {"international", "china"}, period_name: {"rixian"}]
    /\ ret = NoRet

\* add_all_indicators on a frame with a close column: the columns are
\* assigned to the caller's frame, and that frame is the return value
AddAllIndicators ==
    /\ pc = "raw"
    /\ "close" \in Columns(df)
    /\ df' = add_all_indicators(df, args.rsi_style)
    /\ ret' = df'
    /\ pc' = "annotated"
    /\ UNCHANGED args

\* mutant: the close column is looked for after the first columns are written
AddAllIndicatorsRaisesLate ==
    /\ pc = "raw"
    /\ "close" \notin Columns(df)
    /\ df' = AssignColumns(df, [ma5 |-> [i \in 1..Len(df) |-> NaN]])
    /\ ret' = "ValueError"
    /\ pc' = "raised"
    /\ UNCHANGED args

\* add_all_indicators on a frame without a close column: ValueError before
\* any column is written
AddAllIndicatorsRaises ==
    /\ pc = "raw"
    /\ "close" \notin Columns(df)
    /\ ret' = "ValueError"
    /\ pc' = "raised"
    /\ UNCHANGED <<df, args>>

AnalyzeTrend ==
    /\ pc = "annotated"
    /\ ret' = analyze_trend(df, args.period_name)
    /\ pc' = "analyzed"
    /\ UNCHANGED <<df, args>>

NextPipeline == AddAllIndicators \/ AddAllIndicatorsRaises \/ AnalyzeTrend

SpecPipeline == InitPipeline /\ [][NextPipeline]_vars

\* every close is the previous close plus one
RisingByOne(frame) ==
    /\ "close" \in Columns(frame)
    /\ \A i \in 2..Len(frame) : IntOf(frame[i].close) = IntOf(frame[i - 1].close) + 1

\* every bar spans exactly its open and its close
NoWicks(frame) ==
    /\ {"open", "high", "low", "close"} \subseteq Columns(frame)
    /\ \A i \in 1..Len(frame) :
          /\ frame[i].high = RMax(frame[i].open, frame[i].close)
          /\ frame[i].low = RMin(frame[i].open, frame[i].close)

\* C3: on a series of 30 bars without wicks whose close rises by 1 each bar,
\* analyze_trend after add_all_indicators reports a bullish MA arrangement (up
\* or strong_up), MACD dif above dea with trend up, overall trend uptrend and
\* strength moderate or strong.
C3_RisingScenario ==
    (pc = "analyzed" /\ Len(df) >= 30 /\ RisingByOne(df) /\ NoWicks(df)) =>
        /\ ret.ma_trend.trend \in {"up", "strong_up"}
        /\ RGt(Latest(df).macd_dif, Latest(df).macd_dea)
        /\ ret.macd_trend.trend = "up"
        /\ ret.trend = "uptrend"
        /\ ret.strength \in {"moderate", "strong"}

C3_Witness ==
    /\ pc = "analyzed" /\ Len(df) >= 30 /\ RisingByOne(df) /\ NoWicks(df)
    /\ args.rsi_style = "international"
    /\ ret.trend = "uptrend"
    /\ ret.ma_trend.trend = "strong_up"
    /\ ret.kdj_trend.trend = "up"

\* the bars after the first period of the RSI
LaterBars(frame) == 15..Len(frame)

\* C4: on a series of 30 bars whose close rises by 1 each bar the rsi column
\* written by add_all_indicators (international style) is defined in the later
\* bars and moves toward or above 70: it never falls while below 70 and ends
\* above 50.
C4_RsiRising ==
    (pc \in {"annotated", "analyzed"} /\ Len(df) >= 30 /\ RisingByOne(df)
        /\ args.rsi_style = "international") =>
        /\ \A i \in LaterBars(df) : IsFinite(df[i].rsi)
        /\ \A i \in LaterBars(df) :
              i > 15 => (RGe(df[i].rsi, df[i - 1].rsi) \/ RGe(df[i].rsi, Num(70)))
        /\ RGt(Latest(df).rsi, Num(50))

\* the rising series after annotation: the rsi column holds no value at all
C4_Witness ==
    /\ pc = "annotated" /\ Len(df) >= 30 /\ RisingByOne(df)
    /\ args.rsi_style = "international"
    /\ \A i \in 1..Len(df) : isnan(df[i].rsi)
    /\ IsFinite(Latest(df).macd_dif)

\* the columns add_all_indicators writes for either RSI style and any input
IndicatorColumns ==
    {"ma5", "ma10", "ma20", "ma60", "rsi", "macd_dif", "macd_dea", "macd",
     "boll_mid", "boll_upper", "boll_lower"}

KdjColumns == {"kdj_k", "kdj_d", "kdj_j"}

\* the further RSI columns of the china style
ChinaRsiColumns == {"rsi6", "rsi12", "rsi24", "rsi14"}

\* the call of add_all_indicators returns normally in this step
Annotates == pc = "raw" /\ pc' = "annotated"

\* C11 as stated: add_all_indicators leaves the frame it is given as it was.
C11_InputUnchanged == [][Annotates => df' = df]_vars

\* C11 amended: add_all_indicators assigns the indicator columns to the frame
\* it is given and returns that frame; the columns the frame had keep their
\* values and no row is added or removed.  The columns added are the MA, RSI,
\* MACD and Bollinger columns, the four further RSI columns under the china
\* style, and the KDJ columns when high and low exist.
C11_InPlace ==
    [][Annotates =>
          /\ ret' = df'
          /\ Len(df') = Len(df)
          /\ Columns(df') = Columns(df) \cup IndicatorColumns
                              \cup (IF args.rsi_style = "china" THEN ChinaRsiColumns ELSE {})
                              \cup (IF {"high", "low"} \subseteq Columns(df)
                                    THEN KdjColumns ELSE {})
          /\ IndicatorColumns \cap Columns(df) = {}
          /\ \A i \in 1..Len(df) : \A c \in Columns(df) : df'[i][c] = df[i][c]]_vars

C11_Witness ==
    /\ pc = "annotated"
    /\ ret = df
    /\ IndicatorColumns \cup KdjColumns \subseteq Columns(df)
    /\ IsFinite(Latest(df).ma20)

\* C12: on a frame without a close column add_all_indicators raises, and no
\* column has been written to the frame when it does.
C12_RaisesFirst ==
    [][(pc = "raw" /\ "close" \notin Columns(df)) =>
          (pc' = "raised" /\ ret' = "ValueError" /\ df' = df)]_vars

C12_Witness ==
    /\ pc = "raised"
    /\ ret = "ValueError"
    /\ "close" \notin Columns(df)
    /\ {"open", "high", "low"} \subseteq Columns(df)
    /\ Columns(df) \cap (IndicatorColumns \cup KdjColumns) = {}

Above(levels, current_price) == SelectSeq(levels, LAMBDA r : RGt(r, current_price))

Below(levels, current_price) == SelectSeq(levels, LAMBDA s : RLt(s, current_price))

\* 'if resistance_levels: ... if above_resistance: nearest_resistance = min(...)'
NearestOf(side, pick_min) ==
    IF side = <<>> THEN NoneValue
    ELSE IF pick_min THEN MinSeq(side, 1, Len(side)) ELSE MaxSeq(side, 1, Len(side))

\* (nearest_resistance - current_price) / current_price * 100
DistancePct(upper, lower, current_price) ==
    IF upper = NoneValue \/ lower = NoneValue THEN NoneValue
    ELSE RMul(RDiv(RSub(upper, lower), current_price), Num(100))

PositionOf(resistance_distance, support_distance) ==
    IF Truthy(resistance_distance) /\ Truthy(support_distance)
    THEN IF RLt(resistance_distance, support_distance) THEN "near_resistance"
         ELSE "near_support"
    ELSE IF Truthy(resistance_distance) THEN "near_resistance"
    ELSE IF Truthy(support_distance) THEN "near_support"
    ELSE "middle"

PositionResult(current_price, nearest_resistance, nearest_support, resistance_distance, support_distance) ==
    [current_price |-> current_price,
     nearest_resistance |-> nearest_resistance,
     nearest_support |-> nearest_support,
     resistance_distance |-> resistance_distance,
     support_distance |-> support_distance,
     position |-> PositionOf(resistance_distance, support_distance)]

PositionOfNearest(current_price, nearest_resistance, nearest_support) ==
    PositionResult(current_price, nearest_resistance, nearest_support,
                   DistancePct(nearest_resistance, current_price, current_price),
                   DistancePct(current_price, nearest_support, current_price))

get_current_price_position(current_price, resistance_levels, support_levels) ==
    PositionOfNearest(current_price,
                      NearestOf(Above(resistance_levels, current_price), TRUE),
                      NearestOf(Below(support_levels, current_price), FALSE))

PosMaxPrice == 4
PosMaxLen == 2

PosPrices == {Num(v) : v \in 1..PosMaxPrice}

InitPosition ==
    /\ pc = "position"
    /\ df = NoFrame
    /\ args \in [current_price: PosPrices,
                 resistance_levels: SeqsUpTo(PosPrices, PosMaxLen),
                 support_levels: SeqsUpTo(PosPrices, PosMaxLen)]
    /\ ret = NoRet

CallPricePosition ==
    /\ pc = "position"
    /\ ret' = get_current_price_position(args.current_price, args.resistance_levels,
                                         args.support_levels)
    /\ pc' = "positioned"
    /\ UNCHANGED <<df, args>>

NextPosition == CallPricePosition

SpecPosition == InitPosition /\ [][NextPosition]_vars

\* the prices of the levels strictly above and strictly below the price
PricesAbove == {IntOf(r) : r \in {x \in Range(args.resistance_levels) : IntOf(x) > IntOf(args.current_price)}}

PricesBelow == {IntOf(s) : s \in {x \in Range(args.support_levels) : IntOf(x) < IntOf(args.current_price)}}

SetMin(S) == CHOOSE m \in S : \A x \in S : m <= x

SetMax(S) == CHOOSE m \in S : \A x \in S : m >= x

ResistanceGap == SetMin(PricesAbove) - IntOf(args.current_price)

SupportGap == IntOf(args.current_price) - SetMax(PricesBelow)

NearestAsStated ==
    /\ ret.nearest_resistance = (IF PricesAbove = {} THEN NoneValue ELSE Num(SetMin(PricesAbove)))
    /\ ret.nearest_support = (IF PricesBelow = {} THEN NoneValue ELSE Num(SetMax(PricesBelow)))

PositionAsStated ==
    IF PricesAbove # {} /\ PricesBelow # {}
    THEN IF ResistanceGap < SupportGap THEN "near_resistance"
         ELSE IF SupportGap < ResistanceGap THEN "near_support"
         ELSE "middle"
    ELSE IF PricesAbove # {} THEN "near_resistance"
    ELSE IF PricesBelow # {} THEN "near_support"
    ELSE "middle"

\* C18: the nearest resistance is the least resistance strictly above the price
\* and the nearest support the greatest support strictly below it (None when
\* there is none); the position is near_resistance iff the resistance distance
\* is the smaller one or only a resistance exists, near_support iff the support
\* distance is the smaller one or only a support exists, and middle otherwise,
\* equal distances and no levels included.
C18_PositionRule ==
    pc = "positioned" => (NearestAsStated /\ ret.position = PositionAsStated)

\* the price is exactly half way between its nearest levels and the answer is
\* near_support
C18_Witness ==
    /\ pc = "positioned"
    /\ PricesAbove # {} /\ PricesBelow # {}
    /\ ResistanceGap = SupportGap
    /\ ret.position = "near_support"

\* away from equal distances the position is the stated one
C18_OffTies ==
    pc = "positioned" =>
        /\ NearestAsStated
        /\ (PricesAbove # {} /\ PricesBelow # {} /\ ResistanceGap = SupportGap)
             \/ ret.position = PositionAsStated


(***************************************************************************)
(* trend_analyzer.py, analyze_trend on frames of any length.  Only the     *)
(* last two rows of a frame are read, so the frames repeat one row; the    *)
(* indicator fields of the row are drawn freely, present or absent, so     *)
(* that every sub-verdict and every band position occurs.                  *)
(***************************************************************************)
VerdictMaxLen == 21

\* the empty frame, one bar, one bar short of the 20 required, and enough bars
VerdictLens == {0, 1, 19} \cup (20..VerdictMaxLen)

NoFields == [c \in {} |-> NaN]

VerdictCloses == {Num(1), Num(3), Num(5)}

MaValues == {Num(1), Num(2), Num(3)}

Ma60Values == {NaN, Num(0), Frac(1, 2), Num(4)}

MaFields ==
    {NoFields} \cup
    {[ma5 |-> a, ma10 |-> b, ma20 |-> c, ma60 |-> d] :
        a \in MaValues \cup {NaN}, b \in MaValues, c \in MaValues, d \in Ma60Values}

\* bands 2, 3, 4: the closes 1, 3, 5 lie below, inside and above them
BollFields == {NoFields, [boll_upper |-> Num(4), boll_mid |-> Num(3), boll_lower |-> Num(2)]}

\* absent, dif equal to and above dea, the histogram undefined, all undefined
MacdFields ==
    {NoFields} \cup
    {[macd_dif |-> a, macd_dea |-> Num(0), macd |-> RMul(Num(2), a)] : a \in {Num(0), Num(1)}}
    \cup {[macd_dif |-> Num(1), macd_dea |-> Num(0), macd |-> NaN],
          [macd_dif |-> NaN, macd_dea |-> NaN, macd |-> NaN]}

\* absent, k equal to and above d, j undefined, all undefined
KdjFields ==
    {NoFields} \cup
    {[kdj_k |-> a, kdj_d |-> Num(50), kdj_j |-> RSub(RMul(Num(3), a), Num(100))] :
        a \in {Num(50), Num(90)}}
    \cup {[kdj_k |-> Num(90), kdj_d |-> Num(50), kdj_j |-> NaN],
          [kdj_k |-> NaN, kdj_d |-> NaN, kdj_j |-> NaN]}

VerdictRows ==
    {[close |-> c] @@ m @@ b @@ x @@ k :
        c \in VerdictCloses, m \in MaFields, b \in BollFields, x \in MacdFields, k \in KdjFields}

InitVerdict ==
    /\ pc = "verdict"
    /\ df \in {[i \in 1..n |-> row] : n \in VerdictLens, row \in VerdictRows}
    /\ args \in [period_name: {"rixian"}]
    /\ ret = NoRet

CallAnalyzeTrend ==
    /\ pc = "verdict"
    /\ ret' = analyze_trend(df, args.period_name)
    /\ pc' = "judged"
    /\ UNCHANGED <<df, args>>

NextVerdict == CallAnalyzeTrend

SpecVerdict == InitVerdict /\ [][NextVerdict]_vars

SubVerdictFields == {"ma_trend", "macd_trend", "kdj_trend", "boll_position", "rsi_value"}

\* C14: with fewer than 20 bars, the empty frame included, analyze_trend
\* returns a verdict with trend unknown and the not-enough-data text, and the
\* verdict carries no sub-verdict.
C14_ShortFrameUnknown ==
    (pc = "judged" /\ Len(df) < 20) =>
        /\ ret.trend = "unknown"
        /\ ret.analysis = "shuju_buzu"
        /\ ret.period = args.period_name
        /\ DOMAIN ret \cap SubVerdictFields = {}

\* 19 bars whose averages are in bullish order are still answered unknown
C14_Witness ==
    /\ pc = "judged"
    /\ Len(df) = 19
    /\ "ma5" \in Columns(df)
    /\ RGt(Latest(df).ma5, Latest(df).ma10) /\ RGt(Latest(df).ma10, Latest(df).ma20)
    /\ ret.trend = "unknown"

OverallTrends == {"uptrend", "downtrend", "sideways", "unknown"}

Strengths == {"strong", "moderate", "weak"}

\* C15 as stated: every verdict, for any input length, has its trend among
\* uptrend, downtrend, sideways, unknown and its strength among strong,
\* moderate, weak.
C15_VerdictRange ==
    pc = "judged" => (ret.trend \in OverallTrends /\ ret.strength \in Strengths)

\* C15 amended: the trend is always one of the four; the strength is strong,
\* moderate or weak for frames of at least 20 bars and unknown for shorter
\* frames.
C15_VerdictRangeByLength ==
    pc = "judged" =>
        /\ ret.trend \in OverallTrends
        /\ Len(df) >= 20 => ret.strength \in Strengths
        /\ Len(df) < 20 => ret.strength = "unknown"

\* a short frame with strength unknown was judged, and so was a long one
C15_Witness ==
    /\ pc = "judged"
    /\ Len(df) = 20
    /\ ret.ma_trend.trend = "strong_up"
    /\ ret.strength = "strong"

C15_WitnessShort == pc = "judged" /\ Len(df) = 1 /\ ret.strength = "unknown"


\* the bands of the last bar are all defined
BandsDefined ==
    /\ {"boll_upper", "boll_lower"} \subseteq Columns(df)
    /\ ~isna(Get(Latest(df), "boll_upper"))
    /\ ~isna(Get(Latest(df), "boll_mid"))
    /\ ~isna(Get(Latest(df), "boll_lower"))

CloseAboveUpper == BandsDefined /\ RGt(Latest(df).close, Latest(df).boll_upper)

CloseBelowLower == BandsDefined /\ RLt(Latest(df).close, Latest(df).boll_lower)

MaStrong == ret.ma_trend.trend \in {"strong_up", "strong_down"}

MaPlain == ret.ma_trend.trend \in {"up", "down"}

\* C16: the strength is strong iff the moving-average verdict is strong_up or
\* strong_down or the close is above the upper band (the breakout label);
\* otherwise moderate iff the moving-average verdict is plain up or down;
\* otherwise weak.  A close below the lower band alone does not give strong,
\* and the fused overall trend has no part in the result.
C16_StrengthRule ==
    (pc = "judged" /\ Len(df) >= 20) =>
        /\ (ret.boll_position.signal = "qiangshi_tupo") <=> CloseAboveUpper
        /\ (ret.boll_position.signal = "ruoshi_diepo") <=> CloseBelowLower
        /\ (ret.strength = "strong") <=> (MaStrong \/ CloseAboveUpper)
        /\ (ret.strength = "moderate") <=> (~MaStrong /\ ~CloseAboveUpper /\ MaPlain)
        /\ (ret.strength = "weak") <=> (~MaStrong /\ ~CloseAboveUpper /\ ~MaPlain)
        /\ \A t \in OverallTrends :
              _get_trend_strength([ma_trend |-> ret.ma_trend,
                                   boll_position |-> ret.boll_position,
                                   trend |-> t]) = ret.strength

\* a close below the lower band under a plain falling arrangement: moderate,
\* in a downtrend
C16_Witness ==
    /\ pc = "judged"
    /\ Len(df) >= 20
    /\ CloseBelowLower
    /\ ret.ma_trend.trend = "down"
    /\ ret.trend = "downtrend"
    /\ ret.strength = "moderate"

\* a breakout over tangled averages: strong, in a sideways market
C16_WitnessBreakout ==
    /\ pc = "judged"
    /\ Len(df) >= 20
    /\ CloseAboveUpper
    /\ ret.ma_trend.trend = "sideways"
    /\ ret.trend = "sideways"
    /\ ret.strength = "strong"


(***************************************************************************)
(* pattern_recognizer.py, the scan of a whole frame.  Pair labels:         *)
(*   yang_bao_yin, yin_bao_yang    bullish, bearish engulfing               *)
(*   shuguang_chuxian, wuyun_gaiding   piercing line, dark cloud cover      *)
(***************************************************************************)
BodyMid(row) == RDiv(RAdd(row.open, row.close), Num(2))

\* mutant: the piercing and dark-cloud rules are tried before the engulfing rules
DoubleOfInfo_piercing_first(prev_row, curr_row, prev_info, curr_info) ==
    IF /\ prev_info.is_bearish /\ curr_info.is_bullish
       /\ RGt(curr_row.close, BodyMid(prev_row)) /\ RLt(curr_row.open, prev_row.close)
    THEN "shuguang_chuxian"
    ELSE IF /\ prev_info.is_bullish /\ curr_info.is_bearish
            /\ RLt(curr_row.close, BodyMid(prev_row)) /\ RGt(curr_row.open, prev_row.close)
    THEN "wuyun_gaiding"
    ELSE IF /\ prev_info.is_bearish /\ curr_info.is_bullish
            /\ RGt(curr_row.close, prev_row.open) /\ RLt(curr_row.open, prev_row.close)
    THEN "yang_bao_yin"
    ELSE IF /\ prev_info.is_bullish /\ curr_info.is_bearish
            /\ RLt(curr_row.close, prev_row.open) /\ RGt(curr_row.open, prev_row.close)
    THEN "yin_bao_yang"
    ELSE None

DoubleOfInfo(prev_row, curr_row, prev_info, curr_info) ==
    IF /\ prev_info.is_bearish /\ curr_info.is_bullish
       /\ RGt(curr_row.close, prev_row.open) /\ RLt(curr_row.open, prev_row.close)
    THEN "yang_bao_yin"
    ELSE IF /\ prev_info.is_bullish /\ curr_info.is_bearish
            /\ RLt(curr_row.close, prev_row.open) /\ RGt(curr_row.open, prev_row.close)
    THEN "yin_bao_yang"
    ELSE IF /\ prev_info.is_bearish /\ curr_info.is_bullish
            /\ RGt(curr_row.close, BodyMid(prev_row)) /\ RLt(curr_row.open, prev_row.close)
    THEN "shuguang_chuxian"
    ELSE IF /\ prev_info.is_bullish /\ curr_info.is_bearish
            /\ RLt(curr_row.close, BodyMid(prev_row)) /\ RGt(curr_row.open, prev_row.close)
    THEN "wuyun_gaiding"
    ELSE None

recognize_double_pattern(prev_row, curr_row) ==
    DoubleOfInfo(prev_row, curr_row, _calculate_body_info(prev_row),
                 _calculate_body_info(curr_row))

\* the labels that contain a bullish keyword, and those that contain a bearish one
BullishLabels ==
    {"chuizi", "daochuizi", "yang_bao_yin", "shuguang_chuxian", "zaochen_zhi_xing",
     "hong_san_bing"}

BearishLabels ==
    {"shangdiao", "liuxing", "yin_bao_yang", "wuyun_gaiding", "huanghun_zhi_xing",
     "san_zhi_wuya"}

_get_pattern_signal(pattern) ==
    IF pattern \in BullishLabels THEN "bullish"
    ELSE IF pattern \in BearishLabels THEN "bearish"
    ELSE "neutral"

\* 'if pattern: patterns.append({...})'; a frame without a date column has date = i
Match(i, pattern, type) ==
    IF pattern = None THEN <<>>
    ELSE <<[index |-> i, date |-> i, pattern |-> pattern, type |-> type,
            signal |-> _get_pattern_signal(pattern)]>>

\* mutant: the pair and triple rules are tried only when the rule before found
\* nothing
MatchesAtFirstOnly(frame, i) ==
    IF recognize_single_pattern(iloc(frame, i)) # None
    THEN Match(i, recognize_single_pattern(iloc(frame, i)), "single")
    ELSE IF i > 0 /\ recognize_double_pattern(iloc(frame, i - 1), iloc(frame, i)) # None
    THEN Match(i, recognize_double_pattern(iloc(frame, i - 1), iloc(frame, i)), "double")
    ELSE Match(i, recognize_triple_pattern(frame, i), "triple")

\* one pass of the loop body
MatchesAt(frame, i) ==
    Match(i, recognize_single_pattern(iloc(frame, i)), "single")
    \o (IF i > 0
        THEN Match(i, recognize_double_pattern(iloc(frame, i - 1), iloc(frame, i)), "double")
        ELSE <<>>)
    \o Match(i, recognize_triple_pattern(frame, i), "triple")

RECURSIVE ScanFrom(_, _)
ScanFrom(frame, i) ==
    IF i >= Len(frame) THEN <<>> ELSE MatchesAt(frame, i) \o ScanFrom(frame, i + 1)

analyze_patterns(frame) == ScanFrom(frame, 0)

\* sorted(..., key=index, reverse=True) is stable: a match goes behind every
\* match whose index is not smaller
RECURSIVE InsertByIndexDesc(_, _)
InsertByIndexDesc(sorted, m) ==
    IF sorted = <<>> THEN <<m>>
    ELSE IF sorted[1].index >= m.index
    THEN <<sorted[1]>> \o InsertByIndexDesc(Tail(sorted), m)
    ELSE <<m>> \o sorted

RECURSIVE SortByIndexDesc(_, _)
SortByIndexDesc(patterns, k) ==
    IF k = 0 THEN <<>>
    ELSE InsertByIndexDesc(SortByIndexDesc(patterns, k - 1), patterns[k])

\* sorted_patterns[:n], n >= 0
FirstN(q, n) == SubSeq(q, 1, IF n < Len(q) THEN n ELSE Len(q))

RECURSIVE Reversed(_)
Reversed(q) == IF q = <<>> THEN <<>> ELSE Append(Reversed(Tail(q)), q[1])

\* mutant: the scan is reversed instead of sorted stably
RecentOf_reversed(all_patterns, n) == FirstN(Reversed(all_patterns), n)

RecentOf(all_patterns, n) == FirstN(SortByIndexDesc(all_patterns, Len(all_patterns)), n)

get_recent_patterns(frame, n) == RecentOf(analyze_patterns(frame), n)

PatMaxLen == 3
PatMaxN == 3

\* bars that together trigger every pair rule and the star rules: a large
\* bearish bar, a small bearish and a small bullish bar with long shadows, two
\* solid bullish bars and a solid bearish bar
PatternBars ==
    {Row(4, 4, 1, 1), Row(3, 4, 1, 2), Row(2, 4, 1, 3), Row(1, 3, 1, 3), Row(1, 4, 1, 4),
     Row(4, 4, 2, 2)}

InitPatterns ==
    /\ pc = "scan"
    /\ df \in SeqsUpTo(PatternBars, PatMaxLen)
    /\ args \in [n: 0..PatMaxN]
    /\ ret = NoRet

CallAnalyzePatterns ==
    /\ pc = "scan"
    /\ ret' = analyze_patterns(df)
    /\ pc' = "scanned"
    /\ UNCHANGED <<df, args>>

CallRecentPatterns ==
    /\ pc = "scan"
    /\ ret' = get_recent_patterns(df, args.n)
    /\ pc' = "recent"
    /\ UNCHANGED <<df, args>>

NextPatterns == CallAnalyzePatterns \/ CallRecentPatterns

SpecPatterns == InitPatterns /\ [][NextPatterns]_vars

\* the class and label of the matches, in order
Tags(q) == [k \in DOMAIN q |-> <<q[k].type, q[k].pattern>>]

AtIndex(q, i) == SelectSeq(q, LAMBDA m : m.index = i)

\* what the three rules say at index i, empty results left out
RuleResults(frame, i) ==
    SelectSeq(<<<<"single", recognize_single_pattern(iloc(frame, i))>>,
                <<"double", IF i >= 1
                            THEN recognize_double_pattern(iloc(frame, i - 1), iloc(frame, i))
                            ELSE None>>,
                <<"triple", IF i >= 2 THEN recognize_triple_pattern(frame, i) ELSE None>>>>,
              LAMBDA t : t[2] # None)

\* C19: analyze_patterns lists its matches in ascending bar index, and at each
\* index i exactly the non-empty results of the single-bar rule at i, the
\* two-bar rule on (i-1, i) when i >= 1 and the three-bar rule on (i-2, i-1, i)
\* when i >= 2, in that order, each tagged with its class: at most three per
\* index, one per class, none dropped.
C19_ScanOrder ==
    pc = "scanned" =>
        /\ \A j \in 1..(Len(ret) - 1) : ret[j].index <= ret[j + 1].index
        /\ \A j \in 1..Len(ret) : ret[j].index \in 0..(Len(df) - 1)
        /\ \A i \in 0..(Len(df) - 1) :
              /\ Tags(AtIndex(ret, i)) = RuleResults(df, i)
              /\ Len(AtIndex(ret, i)) <= 3
              /\ \A j, k \in 1..Len(AtIndex(ret, i)) :
                    j # k => AtIndex(ret, i)[j].type # AtIndex(ret, i)[k].type

\* an index that carries a match of each class
C19_Witness ==
    /\ pc = "scanned"
    /\ Len(df) >= 3
    /\ Tags(AtIndex(ret, 2)) = <<<<"single", "da_yang">>, <<"double", "shuguang_chuxian">>,
                                 <<"triple", "zaochen_zhi_xing">>>>

TypeRank(type) == IF type = "single" THEN 1 ELSE IF type = "double" THEN 2 ELSE 3

DoubleMaxPrice == 4

InitDouble ==
    /\ pc = "double"
    /\ df = NoFrame
    /\ args \in [prev_row: WellFormedRows(DoubleMaxPrice), curr_row: WellFormedRows(DoubleMaxPrice)]
    /\ ret = NoRet

CallDoublePattern ==
    /\ pc = "double"
    /\ ret' = recognize_double_pattern(args.prev_row, args.curr_row)
    /\ pc' = "doubled"
    /\ UNCHANGED <<df, args>>

NextDouble == CallDoublePattern

SpecDouble == InitDouble /\ [][NextDouble]_vars

\* the pair on its integer prices
PrevOpen == IntOf(args.prev_row.open)

PrevClose == IntOf(args.prev_row.close)

CurrOpen == IntOf(args.curr_row.open)

CurrClose == IntOf(args.curr_row.close)

BearishThenBullish == PrevClose < PrevOpen /\ CurrClose > CurrOpen

BullishThenBearish == PrevClose > PrevOpen /\ CurrClose < CurrOpen

EngulfsUp == BearishThenBullish /\ CurrClose > PrevOpen /\ CurrOpen < PrevClose

EngulfsDown == BullishThenBearish /\ CurrClose < PrevOpen /\ CurrOpen > PrevClose

\* close beyond the midpoint of the prior body: 2 * close against open + close
PiercesUp == BearishThenBullish /\ 2 * CurrClose > PrevOpen + PrevClose /\ CurrOpen < PrevClose

PiercesDown == BullishThenBearish /\ 2 * CurrClose < PrevOpen + PrevClose /\ CurrOpen > PrevClose

\* C23: recognize_double_pattern gives one label or None, trying bullish
\* engulfing, bearish engulfing, piercing, dark cloud cover in that order: a
\* pair that engulfs upwards is bullish engulfing although it also pierces, so
\* piercing is the answer only for close > midpoint, open < prevClose and
\* close <= prevOpen; the bearish side is the mirror image; any other pair
\* gives None.
C23_DoubleOrder ==
    pc = "doubled" =>
        /\ ret \in {"yang_bao_yin", "yin_bao_yang", "shuguang_chuxian", "wuyun_gaiding", None}
        /\ EngulfsUp => PiercesUp
        /\ EngulfsDown => PiercesDown
        /\ (ret = "yang_bao_yin") <=> EngulfsUp
        /\ (ret = "yin_bao_yang") <=> EngulfsDown
        /\ (ret = "shuguang_chuxian") <=> (PiercesUp /\ CurrClose <= PrevOpen)
        /\ (ret = "wuyun_gaiding") <=> (PiercesDown /\ CurrClose >= PrevOpen)
        /\ (ret = None) <=> ~(PiercesUp \/ PiercesDown)

\* a pair that engulfs and pierces is labelled engulfing
C23_Witness == pc = "doubled" /\ EngulfsUp /\ PiercesUp /\ ret = "yang_bao_yin"

\* a pair that pierces without engulfing
C23_WitnessPiercing ==
    pc = "doubled" /\ PiercesUp /\ CurrClose <= PrevOpen /\ ret = "shuguang_chuxian"


(***************************************************************************)
(* The merge with its history: every bucket remembers the levels that were *)
(* merged into it, in the order they came.  Prices are integers, scaled by *)
(* MergeScale.                                                             *)
(***************************************************************************)
RECURSIVE BucketsWithMembers(_, _)
BucketsWithMembers(q, tol) ==
    IF q = <<>> THEN <<>>
    ELSE LET before == BucketsWithMembers(SubSeq(q, 1, Len(q) - 1), tol)
             level  == q[Len(q)]
             near   == {i \in DOMAIN before : Within(level, before[i].price, tol)}
         IN  IF near = {} THEN Append(before, [price |-> level, members |-> <<level>>])
             ELSE LET first == CHOOSE i \in near : \A k \in near : i <= k
                  IN  [before EXCEPT ![first] = [price |-> (before[first].price + level) \div 2,
                                                 members |-> Append(before[first].members, level)]]

MergeHistory ==
    BucketsWithMembers(Descending([i \in DOMAIN args.levels |-> Scaled(args.levels[i])]),
                       args.tolerance)

RECURSIVE SumInts(_)
SumInts(q) == IF q = <<>> THEN 0 ELSE q[1] + SumInts(Tail(q))

\* the mean taken pair by pair: ((m1 + m2) / 2 + m3) / 2 ...
RECURSIVE PairwiseMean(_)
PairwiseMean(q) ==
    IF Len(q) = 1 THEN q[1]
    ELSE (PairwiseMean(SubSeq(q, 1, Len(q) - 1)) + q[Len(q)]) \div 2

\* the returned levels are the prices of the buckets of the history
ReturnsHistory ==
    /\ Len(ret) = Len(MergeHistory)
    /\ \A i \in DOMAIN ret : ret[i] = Frac(MergeHistory[i].price, MergeScale)

\* C24 as stated: the price of every returned level is the average of all the
\* raw prices merged into it, whether they are one, two, or three and more.
C24_LevelIsAverage ==
    pc = "merged" =>
        /\ ReturnsHistory
        /\ \A i \in DOMAIN MergeHistory :
              MergeHistory[i].price * Len(MergeHistory[i].members)
                  = SumInts(MergeHistory[i].members)

\* C24 amended: the price of a returned level is the pairwise running mean of
\* the raw prices merged into it, taken in descending order: the price itself
\* for one, the average for two, and ((p1 + p2) / 2 + p3) / 2 and so on for
\* three and more, which weighs the later (lower) prices more.
C24_LevelIsRunningMean ==
    pc = "merged" =>
        /\ ReturnsHistory
        /\ \A i \in DOMAIN MergeHistory :
              /\ MergeHistory[i].price = PairwiseMean(MergeHistory[i].members)
              /\ Len(MergeHistory[i].members) <= 2 =>
                    MergeHistory[i].price * Len(MergeHistory[i].members)
                        = SumInts(MergeHistory[i].members)
              /\ \A k \in 1..(Len(MergeHistory[i].members) - 1) :
                    MergeHistory[i].members[k] >= MergeHistory[i].members[k + 1]

\* 4, 4 and 3 end in one level priced 3.5, their average is 3.67
C24_Witness ==
    /\ pc = "merged"
    /\ args.levels = <<Num(4), Num(4), Num(3)>>
    /\ args.tolerance = Frac(1, 2)
    /\ Len(MergeHistory) = 1
    /\ Len(MergeHistory[1].members) = 3
    /\ ret = <<Frac(7, 2)>>


\* C28: no two levels of the output of _merge_levels are within the tolerance
\* of each other, |a-b| / ((a+b)/2) >= tolerance for every pair, so merging
\* the output again returns it unchanged.
C28_MergeIdempotent ==
    pc = "merged" =>
        /\ \A i, j \in DOMAIN ret :
              i # j => ~Within(Scaled(ret[i]), Scaled(ret[j]), args.tolerance)
        /\ \A i, j \in DOMAIN ret : i # j => ~IsNear(ret[i], ret[j], args.tolerance)
        /\ _merge_levels(ret, args.tolerance) = ret

\* 4 and 3 were merged into 3.5, and 2, near 3 but not near 3.5, stays apart
C28_Witness ==
    /\ pc = "merged"
    /\ args.levels = <<Num(4), Num(3), Num(2)>>
    /\ args.tolerance = Frac(1, 2)
    /\ ret = <<Frac(7, 2), Num(2)>>
    /\ IsNear(Num(3), Num(2), args.tolerance)


\* low <= min(open, close) <= max(open, close) <= high
WellFormed(row) == BarLower(row) >= 0 /\ BarUpper(row) >= 0

ShadowLabels == {"chuizi", "shangdiao", "liuxing", "daochuizi"}

C27_WitnessIllFormed == pc = "singled" /\ ~WellFormed(args.row) /\ ret \in ShadowLabels


\* a field of the last bar is defined: its column exists and it is not NaN
Defined(name) == name \in Columns(df) /\ ~isna(Get(Latest(df), name))

SubVerdictsUnknown ==
    /\ ret.ma_trend.trend = "unknown"
    /\ ret.macd_trend.trend = "unknown"
    /\ ret.kdj_trend.trend = "unknown"

UpIfAbove(a, b) == IF RGt(Latest(df)[a], Latest(df)[b]) THEN "up" ELSE "down"

\* what C29 says of every frame of at least 20 bars, but for the sub-verdicts
\* of MACD and KDJ
NeverUnknown ==
    /\ ret.trend \in {"uptrend", "downtrend", "sideways"}
    /\ SubVerdictsUnknown =>
          /\ ret.trend = "sideways"
          /\ ret.strength = (IF CloseAboveUpper THEN "strong" ELSE "weak")

\* C29 as stated: with at least 20 bars the trend is never unknown; with all
\* three sub-verdicts unknown it is sideways, weak (strong on a breakout); and
\* whenever dif and dea (k and d) are defined the MACD (KDJ) sub-verdict is up
\* or down, equality counted as down.
C29_NeverUnknown ==
    (pc = "judged" /\ Len(df) >= 20) =>
        /\ NeverUnknown
        /\ (Defined("macd_dif") /\ Defined("macd_dea")) =>
              ret.macd_trend.trend = UpIfAbove("macd_dif", "macd_dea")
        /\ (Defined("kdj_k") /\ Defined("kdj_d")) =>
              ret.kdj_trend.trend = UpIfAbove("kdj_k", "kdj_d")

\* C29 amended: the MACD sub-verdict is up or down whenever dif, dea and the
\* histogram are all defined, the KDJ sub-verdict whenever k, d and j are all
\* defined, and each is unknown as soon as one of its three fields is missing
\* or undefined; the rest as stated.
C29_NeverUnknownAllDefined ==
    (pc = "judged" /\ Len(df) >= 20) =>
        /\ NeverUnknown
        /\ ret.macd_trend.trend =
              (IF Defined("macd_dif") /\ Defined("macd_dea") /\ Defined("macd")
               THEN UpIfAbove("macd_dif", "macd_dea") ELSE "unknown")
        /\ ret.kdj_trend.trend =
              (IF Defined("kdj_k") /\ Defined("kdj_d") /\ Defined("kdj_j")
               THEN UpIfAbove("kdj_k", "kdj_d") ELSE "unknown")

\* dif above dea with the histogram undefined: no MACD verdict, and with the
\* other two unknown as well the trend is sideways and weak
C29_Witness ==
    /\ pc = "judged"
    /\ Len(df) >= 20
    /\ Defined("macd_dif") /\ Defined("macd_dea") /\ ~Defined("macd")
    /\ RGt(Latest(df).macd_dif, Latest(df).macd_dea)
    /\ SubVerdictsUnknown
    /\ ret.trend = "sideways"
    /\ ret.strength = "weak"

\* dif equal to dea, all defined: down
C29_WitnessEqual ==
    /\ pc = "judged"
    /\ Len(df) >= 20
    /\ Defined("macd_dif") /\ Defined("macd_dea") /\ Defined("macd")
    /\ REq(Latest(df).macd_dif, Latest(df).macd_dea)
    /\ ret.macd_trend.trend = "down"


(***************************************************************************)
(* indicators.py, boll on short close series.                              *)
(***************************************************************************)
BollMaxLen == 3
BollMaxPrice == 3

InitBoll ==
    /\ pc = "boll"
    /\ df = NoFrame
    /\ args \in [close: SeqsUpTo({Num(v) : v \in 1..BollMaxPrice}, BollMaxLen) \ {<<>>},
                 n: 2..BollMaxLen, min_periods: 1..2]
    /\ ret = NoRet

CallBoll ==
    /\ pc = "boll"
    /\ ret' = boll(args.close, args.n, Num(2), args.min_periods)
    /\ pc' = "bolled"
    /\ UNCHANGED <<df, args>>

NextBoll == CallBoll

SpecBoll == InitBoll /\ [][NextBoll]_vars

WindowStart(i) == Max2(1, i - args.n + 1)

WindowCount(i) == i - WindowStart(i) + 1

WindowMean(i) == RDiv(SumSeq(args.close, WindowStart(i), i), Num(WindowCount(i)))

\* the deviation of the window that ends at bar i, over count - ddof
WindowStd(i, ddof) ==
    RSqrt(RDiv(SumSqDev(args.close, WindowMean(i), WindowStart(i), i),
               Num(WindowCount(i) - ddof)))

BandsAround(i, std) ==
    /\ ret.boll_upper[i] = RAdd(ret.boll_mid[i], RMul(Num(2), std))
    /\ ret.boll_lower[i] = RSub(ret.boll_mid[i], RMul(Num(2), std))

\* C26: the band width comes from the population deviation of the window,
\* under the same min_periods rule as the mid line: upper and lower are defined
\* at exactly the bars where mid is, and with min_periods = 1 they are defined
\* at the first bar, where upper = lower = mid.
C26_PopulationBands ==
    pc = "bolled" =>
        /\ \A i \in 1..Len(args.close) :
              /\ isnan(ret.boll_upper[i]) <=> isnan(ret.boll_mid[i])
              /\ isnan(ret.boll_lower[i]) <=> isnan(ret.boll_mid[i])
              /\ ~isnan(ret.boll_mid[i]) => BandsAround(i, WindowStd(i, 0))
        /\ args.min_periods = 1 =>
              /\ ~isnan(ret.boll_mid[1])
              /\ ret.boll_upper[1] = ret.boll_mid[1]
              /\ ret.boll_lower[1] = ret.boll_mid[1]

\* closes 1, 3 with min_periods 1: at the first bar mid is 1 and the bands are
\* undefined; at the second mid is 2 and the bands are 2 +- 2 * sqrt(2), where
\* the population deviation 1 would give 4 and 0
C26_Witness ==
    /\ pc = "bolled"
    /\ args.min_periods = 1
    /\ args.close = <<Num(1), Num(3)>>
    /\ ret.boll_mid[1] = Num(1)
    /\ isnan(ret.boll_upper[1]) /\ isnan(ret.boll_lower[1])
    /\ ret.boll_mid[2] = Num(2)
    /\ RGt(ret.boll_upper[2], Num(4))
    /\ RLt(ret.boll_lower[2], Num(0))

\* what the bands are: the sample deviation, undefined on one observation
C26_SampleBands ==
    pc = "bolled" =>
        \A i \in 1..Len(args.close) :
            /\ isnan(ret.boll_mid[i]) <=> WindowCount(i) < args.min_periods
            /\ isnan(ret.boll_upper[i]) <=> (WindowCount(i) < args.min_periods \/ WindowCount(i) < 2)
            /\ isnan(ret.boll_lower[i]) <=> isnan(ret.boll_upper[i])
            /\ ~isnan(ret.boll_upper[i]) => BandsAround(i, WindowStd(i, 1))


(***************************************************************************)
(* support_resistance.py, find_fibonacci_levels.  The result is a          *)
(* dictionary from the level names fib_0.0% ... fib_100.0% to prices; the  *)
(* ratios are kept in thousandths.                                         *)
(***************************************************************************)
fib_ratios == <<0, 236, 382, 500, 618, 786, 1000>>

\* f"fib_{ratio*100:.1f}%"
LevelName(permille) ==
    CASE permille = 0    -> "fib_0.0%"
      [] permille = 236  -> "fib_23.6%"
      [] permille = 382  -> "fib_38.2%"
      [] permille = 500  -> "fib_50.0%"
      [] permille = 618  -> "fib_61.8%"
      [] permille = 786  -> "fib_78.6%"
      [] permille = 1000 -> "fib_100.0%"

RatioOf(level_name) ==
    Frac(CHOOSE r \in Range(fib_ratios) : LevelName(r) = level_name, 1000)

FibLevels(trend, high, low, price_diff) ==
    [level_name \in {LevelName(r) : r \in Range(fib_ratios)} |->
        IF trend = "up" THEN RAdd(low, RMul(price_diff, RatioOf(level_name)))
        ELSE RSub(high, RMul(price_diff, RatioOf(level_name)))]

FibOfRange(trend, high, low) == FibLevels(trend, high, low, RSub(high, low))

\* 'auto': up iff the last close is above the first close of the frame
FibTrend(frame, trend) ==
    IF trend = "auto"
    THEN (IF RGt(Latest(frame).close, frame[1].close) THEN "up" ELSE "down")
    ELSE trend

\* df.tail(lookback) starts at this row
TailStart(frame, lookback) == Len(frame) - (IF lookback < Len(frame) THEN lookback ELSE Len(frame)) + 1

\* Series.max() and Series.min() of the rows lo..hi of a column without NaN
SeriesMax(x, lo, hi) == CHOOSE m \in {x[i] : i \in lo..hi} : \A i \in lo..hi : RLe(x[i], m)

SeriesMin(x, lo, hi) == CHOOSE m \in {x[i] : i \in lo..hi} : \A i \in lo..hi : RGe(x[i], m)

\* mutant: the high and the low are taken over the whole frame
find_fibonacci_levels_full(frame, trend) ==
    IF Len(frame) < 10 THEN NoFields
    ELSE FibOfRange(FibTrend(frame, trend),
                    SeriesMax(Column(frame, "high"), 1, Len(frame)),
                    SeriesMin(Column(frame, "low"), 1, Len(frame)))

find_fibonacci_levels(frame, trend) ==
    IF Len(frame) < 10 THEN NoFields
    ELSE FibOfRange(FibTrend(frame, trend),
                    SeriesMax(Column(frame, "high"), TailStart(frame, 60), Len(frame)),
                    SeriesMin(Column(frame, "low"), TailStart(frame, 60), Len(frame)))

FibMaxLen == 61
FibMaxPrice == 3

\* fewer than 10 bars, 10 bars, the lookback of 60 bars, and more
FibLens == {9, 10, 60} \cup (61..FibMaxLen)

\* bars with low <= close <= high
FibRows ==
    {[close |-> Num(c), high |-> Num(h), low |-> Num(l)] :
        c \in 1..FibMaxPrice, h \in 1..FibMaxPrice, l \in 1..FibMaxPrice}
    \cap {r \in [close: {Num(v) : v \in 1..FibMaxPrice}, high: {Num(v) : v \in 1..FibMaxPrice},
                 low: {Num(v) : v \in 1..FibMaxPrice}] :
             IntOf(r.low) <= IntOf(r.close) /\ IntOf(r.close) <= IntOf(r.high)}

\* a first bar, a last bar, and flat bars at price 2 between them
FibFrame(n, first, last) ==
    [i \in 1..n |-> IF i = 1 THEN first
                    ELSE IF i = n THEN last
                    ELSE [close |-> Num(2), high |-> Num(2), low |-> Num(2)]]

InitFib ==
    /\ pc = "fib"
    /\ df \in {FibFrame(n, first, last) : n \in FibLens, first \in FibRows, last \in FibRows}
    /\ args \in [trend: {"auto", "up", "down"}]
    /\ ret = NoRet

CallFibonacciLevels ==
    /\ pc = "fib"
    /\ ret' = find_fibonacci_levels(df, args.trend)
    /\ pc' = "fibbed"
    /\ UNCHANGED <<df, args>>

NextFib == CallFibonacciLevels

SpecFib == InitFib /\ [][NextFib]_vars

\* the bars of the lookback, and their extremes on the integer prices
RecentBars == {i \in 1..Len(df) : i > Len(df) - 60}

RecentHigh == SetMax({IntOf(df[i].high) : i \in RecentBars})

RecentLow == SetMin({IntOf(df[i].low) : i \in RecentBars})

GoesUp ==
    IF args.trend = "auto" THEN IntOf(Latest(df).close) > IntOf(df[1].close)
    ELSE args.trend = "up"

\* C25: on at least 10 bars, 'auto' means up iff the last close is strictly
\* above the first close of the whole series, while high and low are the
\* extremes of the most recent min(60, len) bars only; exactly 7 levels are
\* returned, low + r * (high - low) going up and high - r * (high - low) going
\* down, r in {0, 0.236, 0.382, 0.5, 0.618, 0.786, 1}, all within [low, high].
C25_Fibonacci ==
    (pc = "fibbed" /\ Len(df) >= 10) =>
        /\ Cardinality(DOMAIN ret) = 7
        /\ DOMAIN ret = {LevelName(r) : r \in Range(fib_ratios)}
        /\ \A r \in Range(fib_ratios) :
              /\ ret[LevelName(r)] =
                    Frac(IF GoesUp THEN 1000 * RecentLow + r * (RecentHigh - RecentLow)
                         ELSE 1000 * RecentHigh - r * (RecentHigh - RecentLow), 1000)
              /\ RLe(Num(RecentLow), ret[LevelName(r)])
              /\ RLe(ret[LevelName(r)], Num(RecentHigh))

\* 61 bars with equal first and last close, the first bar higher than all
\* bars of the lookback: down, from the high of the lookback
C25_Witness ==
    /\ pc = "fibbed"
    /\ Len(df) = 61
    /\ args.trend = "auto"
    /\ df[1].close = Latest(df).close
    /\ IntOf(df[1].high) > RecentHigh
    /\ RecentHigh > RecentLow
    /\ ret["fib_0.0%"] = Num(RecentHigh)
    /\ ret["fib_100.0%"] = Num(RecentLow)


(***************************************************************************)
(* services/cache.py, DataCache used by several threads.  df is the        *)
(* dictionary _cache, from keys to entries; args holds the clock, the ttl, *)
(* what each cleanup in progress has sampled, and the history of the       *)
(* writes; pc is the position of every thread; ret describes the last      *)
(* operation that completed.  A block under 'with self._lock' is one step; *)
(* cleanup reads the clock before it takes the lock, so it takes two.      *)
(***************************************************************************)
CacheMaxTime == 3
CacheMaxTtl == 2

Threads == {"t1", "t2"}

\* _generate_key(prefix, **params): one key per prefix and parameters
Keys == {"k1", "k2"}

Datas == {"a", "b"}

\* a key that is not in _cache
NoEntry == [data |-> None, expires |-> -1]

\* a key that was never set, or not since the last clear
NoWrite == [data |-> None, at |-> -1]

InCache(k) == df[k] # NoEntry

\* no operation has completed yet
NoCall == [op |-> "none", key |-> None, value |-> None, deleted |-> {}, stale |-> {}]

InitCache ==
    /\ pc = [t \in Threads |-> "idle"]
    /\ df = [k \in Keys |-> NoEntry]
    /\ args \in [now: {0}, ttl: 1..CacheMaxTtl, sampled: {[t \in Threads |-> 0]},
                 stale: {[t \in Threads |-> {}]}, written: {[k \in Keys |-> NoWrite]}]
    /\ ret = NoCall

\* time passes
Tick ==
    /\ args.now < CacheMaxTime
    /\ args' = [args EXCEPT !.now = @ + 1]
    /\ UNCHANGED <<pc, df, ret>>

set(t, k, data) ==
    /\ pc[t] = "idle"
    /\ df' = [df EXCEPT ![k] = [data |-> data, expires |-> args.now + args.ttl]]
    /\ args' = [args EXCEPT !.written[k] = [data |-> data, at |-> args.now]]
    /\ ret' = [op |-> "set", key |-> k, value |-> None, deleted |-> {}, stale |-> {}]
    /\ UNCHANGED pc

\* mutant: an expired entry is returned once more before it is removed
get_stale(t, k) ==
    /\ pc[t] = "idle"
    /\ df' = [df EXCEPT ![k] = IF InCache(k) /\ args.now < df[k].expires THEN df[k] ELSE NoEntry]
    /\ ret' = [op |-> "get", key |-> k, value |-> df[k].data,
               deleted |-> IF InCache(k) /\ ~(args.now < df[k].expires) THEN {k} ELSE {},
               stale |-> {}]
    /\ UNCHANGED <<pc, args>>

get(t, k) ==
    /\ pc[t] = "idle"
    /\ df' = [df EXCEPT ![k] = IF InCache(k) /\ args.now < df[k].expires THEN df[k] ELSE NoEntry]
    /\ ret' = [op |-> "get", key |-> k,
               value |-> IF InCache(k) /\ args.now < df[k].expires THEN df[k].data ELSE None,
               deleted |-> IF InCache(k) /\ ~(args.now < df[k].expires) THEN {k} ELSE {},
               stale |-> {}]
    /\ UNCHANGED <<pc, args>>

clear(t) ==
    /\ pc[t] = "idle"
    /\ df' = [k \in Keys |-> NoEntry]
    /\ args' = [args EXCEPT !.written = [k \in Keys |-> NoWrite]]
    /\ ret' = [op |-> "clear", key |-> None, value |-> None,
               deleted |-> {k \in Keys : InCache(k)}, stale |-> {}]
    /\ UNCHANGED pc

\* 'now = datetime.now()', before the lock is taken; stale remembers the keys
\* that were expired at that time
cleanup_sample(t) ==
    /\ pc[t] = "idle"
    /\ pc' = [pc EXCEPT ![t] = "cleanup"]
    /\ args' = [args EXCEPT !.sampled[t] = args.now,
                            !.stale[t] = {k \in Keys : InCache(k) /\ args.now >= df[k].expires}]
    /\ UNCHANGED <<df, ret>>

\* mutant: an entry that expires at the sampled time is kept
expired_strict(t) == {k \in Keys : InCache(k) /\ args.sampled[t] > df[k].expires}

\* mutant: the scan collects every entry that was expired when the clock was read
expired_at_sample(t) == {k \in Keys : InCache(k) /\ k \in args.stale[t]}

\* the keys the scan of cleanup collects
expired(t) == {k \in Keys : InCache(k) /\ args.sampled[t] >= df[k].expires}

\* the block of cleanup under the lock
cleanup(t) ==
    /\ pc[t] = "cleanup"
    /\ df' = [k \in Keys |-> IF k \in expired(t) THEN NoEntry ELSE df[k]]
    /\ ret' = [op |-> "cleanup", key |-> None, value |-> None, deleted |-> expired(t),
               stale |-> args.stale[t]]
    /\ pc' = [pc EXCEPT ![t] = "idle"]
    /\ args' = [args EXCEPT !.sampled[t] = 0, !.stale[t] = {}]

NextCache ==
    \/ Tick
    \/ \E t \in Threads, k \in Keys, data \in Datas : set(t, k, data)
    \/ \E t \in Threads, k \in Keys : get(t, k)
    \/ \E t \in Threads : clear(t)
    \/ \E t \in Threads : cleanup_sample(t)
    \/ \E t \in Threads : cleanup(t)

SpecCache == InitCache /\ [][NextCache]_vars

\* the last set of key k, if no clear came after it, is younger than ttl
Fresh(k) == args.written[k] # NoWrite /\ args.now - args.written[k].at < args.ttl

Expired(k) == InCache(k) /\ args.now >= df[k].expires


\* C21: a get of key k returns the data of the most recent set of k exactly
\* when that set is less than ttl old and no clear came after it, and None in
\* every other case; a get that finds an expired entry removes it.
C21_GetReturns ==
    [][\A t \in Threads, k \in Keys : get(t, k) =>
          /\ ret'.value = (IF Fresh(k) THEN args.written[k].data ELSE None)
          /\ Expired(k) => df'[k] = NoEntry
          /\ ~Expired(k) => df'[k] = df[k]]_vars

\* a get found an entry that had expired, removed it and returned None
C21_Witness ==
    /\ ret.op = "get"
    /\ ret.deleted = {ret.key}
    /\ ret.value = None
    /\ args.written[ret.key] # NoWrite

\* a get returned the data of the latest of two sets of its key
C21_WitnessHit ==
    /\ ret.op = "get"
    /\ ret.value \in Datas
    /\ ret.value = args.written[ret.key].data
    /\ Fresh(ret.key)

\* C22: the scan of cleanup removes exactly the entries whose expiry time is at
\* or before the time cleanup sampled, and leaves every other entry, so every
\* unexpired entry, with its data and its expiry.
C22_CleanupExact ==
    [][\A t \in Threads : cleanup(t) =>
          \A k \in Keys :
             /\ df'[k] = (IF InCache(k) /\ df[k].expires <= args.sampled[t] THEN NoEntry ELSE df[k])
             /\ (InCache(k) /\ args.now < df[k].expires) => df'[k] = df[k]]_vars

\* a cleanup removed an entry and kept an unexpired one
C22_Witness ==
    /\ ret.op = "cleanup"
    /\ ret.deleted # {}
    /\ \E k \in Keys : InCache(k) /\ args.now < df[k].expires /\ Fresh(k)

\* C30: with ttl > 0, whatever the other threads do between the clock sample
\* of cleanup and its scan, the scan deletes no entry that is unexpired when it
\* is deleted, and none that a set wrote at or after the sample.
C30_CleanupSafe ==
    [][\A t \in Threads : cleanup(t) =>
          \A k \in Keys : (InCache(k) /\ df'[k] = NoEntry) =>
             /\ args.now >= df[k].expires
             /\ args.written[k].at < args.sampled[t]]_vars

\* a cleanup spared an entry that was expired when it sampled the clock and
\* that another thread rewrote before the scan
C30_Witness ==
    /\ ret.op = "cleanup"
    /\ \E k \in ret.stale : k \notin ret.deleted /\ InCache(k) /\ args.now < df[k].expires

=============================================================================
